---- MODULE Spec2Model ----
(***************************************************************************)
(* Protocol-translation and task-lifecycle layer of the Kenwei AIGC        *)
(* gateway (server: src/unnamed/part_000).                                 *)
(*                                                                         *)
(* The module holds several specifications over one set of variables, one  *)
(* per part of the server:                                                 *)
(*   SpecNorm   status normalisation and the status-poll responses         *)
(*   SpecWait   waitForKieImageResult, the synchronous wait engine         *)
(*   FairWait   SpecWait with the fairness of the Node event loop          *)
(*   SpecProbe  candidate probing in kieUploadBuffer / kieImageGenerate    *)
(*   SpecChat   POST /v1/chat/completions, the chat-streaming surface      *)
(*   SpecLedger the usage ledger, requests appending one after another    *)
(*   SpecLedgerConc  the usage ledger, several requests in flight          *)
(*   SpecApi    one request to a job, lookup or multimodal surface         *)
(*   SpecSurfaces  SpecApi and SpecChat together: a request to any surface *)
(*   SpecMime   detectImageMime applied to the head of a buffer             *)
(*   SpecStore  the stored generation records and character records        *)
(* some for the page:                                                      *)
(*   SpecBatch  BatchProcessor.process with pause() and resume()           *)
(*              (src/public/scripts/batch-processor.js)                    *)
(*   FairBatch  SpecBatch with the fairness of the event loop              *)
(*   SpecRetry  callWithRetry (src/unnamed/part_003)                       *)
(* and some for the page's storage layer (src/unnamed/part_002):           *)
(*   SpecLru    LRUCache                                                   *)
(*   SpecCache  setCache / getCache / removeCache, one call at a time      *)
(*   SpecCacheConc  the same with several calls in flight                  *)
(*   SpecQueue  WriteQueue with add() and flush()                          *)
(*   FairQueue  SpecQueue with the fairness of the event loop              *)
(* Each specification leaves the variables of the other parts at their     *)
(* idle values.                                                            *)
(***************************************************************************)
EXTENDS Integers, Sequences, FiniteSets, TLC

VARIABLES
  \* --- status normalisation (pure functions applied to one raw record)
  nJson,        \* the raw upstream record the functions are applied to
  nOp,          \* "none", or the function / handler that has been applied
  nStatus,      \* result of normalizeKieStatusToSimple, "" before it ran
  nResp,        \* body of the status response built by a poll handler
  \* --- synchronous wait engine
  now,          \* Date.now(), in ms
  wStart,       \* const start = Date.now()
  wpc,          \* position in waitForKieImageResult
  wPolls,       \* record fetches issued so far
  wSleeps,      \* completed setTimeout(IMAGE_SYNC_POLL_MS) waits
  wPending,     \* polls that normalised to processing
  wOutcome,     \* "", "urls", "JobFailed", "WaitTimeout", "FetchError"
  wUrls,        \* the returned URL list
  wMsg,         \* the message of the thrown Error
  wLast,        \* the record of the last answered poll
  clientGone,   \* the caller's connection has closed
  \* --- candidate probing
  pFn,          \* "upload" (kieUploadBuffer) or "generate" (kieImageGenerate)
  pKey,         \* apiKey argument is non-empty
  pBufLen,      \* buffer.length of the upload
  ppc,          \* position in the probing function
  pIdx,         \* index of the next candidate, 1-based
  pCalls,       \* candidates invoked so far, in order
  pOutcomes,    \* how each invoked candidate ended
  pResult,      \* returned value / thrown error
  \* --- chat-streaming surface
  cKey,         \* the bearer token of the request, "" when it carries none
  cpc,          \* position in the handler
  cIdx,         \* index of the next upstream candidate, 1-based
  cContacted,   \* upstream candidates fetched so far, in order
  cOutcomes,    \* how each finished fetch ended, in order
  cOuterAborted,\* controller.signal.aborted
  cLinked,      \* the current withTimeout signal has a live abort listener
  cInnerAborted,\* the current withTimeout signal is aborted
  cTimer,       \* the current withTimeout timer is pending
  cRes,         \* what has been written to the caller's response
  usageLogs,    \* the usage ledger: key hash -> entries, newest first
  \* --- one request to a job, lookup or multimodal surface
  rSurface,     \* the route of the request
  rKey,         \* the credential the handler reads, "" when there is none
  rIn,          \* the request's parameters
  rpc,          \* position in the handler: what it is awaiting
  rCalls,       \* upstream operations started so far, in order
  rUrls,        \* hosted URLs returned by ingestion so far
  rGot,         \* what the last awaited operation returned
  rRes,         \* the response written to the caller
  rJob,         \* the job an earlier request of this caller created
  \* --- requests that append to the usage ledger
  lCount,       \* requests admitted so far, per credential
  lInFlight,    \* admitted requests whose handler has not appended yet
  \* --- image type detection
  mBuf,         \* the bytes of the buffer
  mMime,        \* what detectImageMime returned, "" before it is called
  \* --- the stores written by the server
  sGenerations, \* generations.json: the stored records, newest first
  sCharacters,  \* sora-characters.json: key hash -> records, newest first
  \* --- a BatchProcessor of the browser scripts
  bOpt,         \* the maxConcurrent option it was constructed with
  bTasks,       \* the task list handed to process()
  bRunning,     \* this._running
  bPaused,      \* this._paused
  bpc,          \* position of process(): "idle", "running", "resolved"
  bNext,        \* nextIndex
  bCount,       \* completed, succeeded and failed
  bResults,     \* results: per index, "empty" or "result"
  bErrors,      \* errors: per index, "empty" or "error"
  bW,           \* the workers: position and task index of each
  bThrown,      \* how many process() calls threw because a batch was running
  \* --- callWithRetry of the page's key manager
  kManual,      \* the manualKey argument
  kStored,      \* DuuApiKeys.get('gateway'): primary and backup
  kOnRetry,     \* whether an onRetry callback was passed
  kpc,          \* "idle", "first", "backup", "returned", "thrown"
  kCalls,       \* the keys apiCall was invoked with, in order
  kFired,       \* how many times onRetry was called
  kErr,         \* the error of the first attempt, NoError before
  kOut,         \* what callWithRetry returned or threw
  \* --- an LRUCache of the page's database module
  uMax,         \* this.maxSize
  uCache,       \* this.cache: the entries of the Map in insertion order
  uRecent,      \* the keys held, least recently used first
  uOp,          \* the last operation: its name, its key and what it returned
  \* --- the general cache of DuuDB: memory cache and IndexedDB store
  dLimit,       \* how many calls may be in flight at once
  dNow,         \* Date.now(), in ms
  dTicks,       \* how many times the clock has advanced
  dMem,         \* the entry _memCache holds for the key, or NoEntry
  dStore,       \* the entry the cache store holds for the key, or NoEntry
  dQueue,       \* the IndexedDB transactions created and not yet run, in order
  dSet,         \* the latest setCache call not followed by a removeCache call
  dClean,       \* a removeCache has completed and setCache was not called since
  dGot,         \* the outcome of the getCache call that completed last
  \* --- the WriteQueue of the page's database module
  qMax,         \* this.maxBatchSize
  qQueue,       \* this.queue: the operations waiting, oldest first
  qTimer,       \* this.timer is set
  qFlushing,    \* this.flushing
  qBatches,     \* the batches handed to _executeBatch and not yet completed
  qSettled,     \* the operations whose add() promise is settled
  qAdded,       \* how many operations were added
  qpc           \* flush(): "idle", "loop" (its await of _flush() has a microtask
                \* pending), "waiting" (for the batch it started), "returned"

normVars  == <<nJson, nOp, nStatus, nResp>>
waitVars  == <<now, wStart, wpc, wPolls, wSleeps, wPending, wOutcome, wUrls, wMsg, wLast>>
probeVars == <<pFn, pKey, pBufLen, ppc, pIdx, pCalls, pOutcomes, pResult>>
chatCtl   == <<cKey, cpc, cIdx, cContacted, cOutcomes, cOuterAborted, cLinked, cInnerAborted,
               cTimer, cRes>>
chatVars  == <<chatCtl, usageLogs>>
apiVars   == <<rSurface, rKey, rIn, rpc, rCalls, rUrls, rGot, rRes, rJob>>
ledgerVars == <<lCount, lInFlight>>
mimeVars  == <<mBuf, mMime>>
storeVars == <<sGenerations, sCharacters>>
batchVars == <<bOpt, bTasks, bRunning, bPaused, bpc, bNext, bCount, bResults, bErrors, bW, bThrown>>
retryVars == <<kManual, kStored, kOnRetry, kpc, kCalls, kFired, kErr, kOut>>
lruVars == <<uMax, uCache, uRecent, uOp>>
dbVars == <<dLimit, dNow, dTicks, dMem, dStore, dQueue, dSet, dClean, dGot>>
queueVars == <<qMax, qQueue, qTimer, qFlushing, qBatches, qSettled, qAdded, qpc>>
serverVars == <<normVars, waitVars, clientGone, probeVars, chatCtl, apiVars, ledgerVars>>
earlierVars == <<serverVars, usageLogs, mimeVars, storeVars, batchVars>>
\* BEGIN later
laterVars == <<retryVars, lruVars, dbVars, queueVars>>
exceptRetry == <<earlierVars, lruVars, dbVars, queueVars>>
exceptLru == <<earlierVars, retryVars, dbVars, queueVars>>
exceptDb == <<earlierVars, retryVars, lruVars, queueVars>>
exceptQueue == <<earlierVars, retryVars, lruVars, dbVars>>
\* END later
restVars  == <<mimeVars, storeVars, batchVars, laterVars>>
vars == <<normVars, waitVars, clientGone, probeVars, chatVars, apiVars, ledgerVars, restVars>>

-----------------------------------------------------------------------------
(* JavaScript values.  A scalar or array value carries its type tag, so    *)
(* that ===, ||, ?? and String() can be computed as the runtime does.      *)

Undef  == [t |-> "undefined", n |-> 0, s |-> "", a |-> <<>>]
Null   == [t |-> "null", n |-> 0, s |-> "", a |-> <<>>]
Num(k) == [t |-> "number", n |-> k, s |-> "", a |-> <<>>]
Str(x) == [t |-> "string", n |-> 0, s |-> x, a |-> <<>>]
Arr(q) == [t |-> "array", n |-> 0, s |-> "", a |-> q]

Nullish(x) == x.t \in {"undefined", "null"}

Truthy(x) ==
  CASE x.t = "number" -> x.n # 0
    [] x.t = "string" -> x.s # ""
    [] x.t = "array"  -> TRUE
    [] OTHER          -> FALSE

\* x || y
Or(x, y) == IF Truthy(x) THEN x ELSE y

\* x ?? y
Coalesce(x, y) == IF Nullish(x) THEN y ELSE x

\* String(x) for the scalars a status field holds
NumStr(k) == CASE k = 0 -> "0" [] k = 1 -> "1" [] k = 2 -> "2" [] k = 3 -> "3" [] OTHER -> "NaN"

JsString(x) ==
  CASE x.t = "string"    -> x.s
    [] x.t = "number"    -> NumStr(x.n)
    [] x.t = "undefined" -> "undefined"
    [] x.t = "null"      -> "null"
    [] OTHER             -> IF Len(x.a) = 1 THEN x.a[1] ELSE ""

\* s.toLowerCase(), on the strings the records of this model hold
ToLowerCase(s) ==
  CASE s = "SUCCESS" -> "success"
    [] s = "Succeed" -> "succeed"
    [] s = "DONE"    -> "done"
    [] s = "Failed"  -> "failed"
    [] s = "ERROR"   -> "error"
    [] s = "Fail"    -> "fail"
    [] s = "Auto"    -> "auto"
    [] s = "AUTO"    -> "auto"
    [] s = "Waiting" -> "waiting"
    [] OTHER         -> s

\* Array.isArray(x) && x.length
NonEmptyArray(x) == x.t = "array" /\ Len(x.a) > 0

\* x[0] of an array of strings
FirstOf(x) == IF NonEmptyArray(x) THEN Str(x.a[1]) ELSE Undef

-----------------------------------------------------------------------------
(* Upstream record-info JSON.  An object is a record of all the keys the   *)
(* server reads; an absent key holds Undef, an absent object has           *)
(* present = FALSE (and then every key of it reads Undef, as ?. does).     *)

NoResponse == [present |-> FALSE, resultUrls |-> Undef, result_urls |-> Undef, urls |-> Undef]

NoTaskResult == [present |-> FALSE, video0url |-> Undef, image0url |-> Undef]

NoData ==
  [present |-> FALSE,
   successFlag |-> Undef, state |-> Undef, status |-> Undef, task_status |-> Undef,
   taskStatus |-> Undef, response |-> NoResponse, result |-> NoResponse,
   resultUrls |-> Undef, result_urls |-> Undef, urls |-> Undef,
   task_result |-> NoTaskResult, taskResult |-> NoTaskResult,
   video_url |-> Undef, url |-> Undef,
   errorMessage |-> Undef, message |-> Undef, progress |-> Undef]

EmptyObject == [NoData EXCEPT !.present = TRUE]

\* A JSON body: its data object, its own keys seen as an object (top), its msg.
NoJson == [data |-> NoData, top |-> EmptyObject, msg |-> Undef]

\* json?.data ?? json
DataOrSelf(json) == IF json.data.present THEN json.data ELSE json.top

\* json?.data ?? {}
DataOrEmpty(json) == IF json.data.present THEN json.data ELSE EmptyObject

\* data?.response ?? data?.result ?? {}
ResponseOf(data) ==
  IF data.response.present THEN data.response
  ELSE IF data.result.present THEN data.result
  ELSE [NoResponse EXCEPT !.present = TRUE]

-----------------------------------------------------------------------------
(* Status Normalizer                                                       *)

\* data?.state ?? data?.status ?? data?.task_status ?? data?.taskStatus
StateRaw(data) ==
  Coalesce(data.state, Coalesce(data.status, Coalesce(data.task_status, data.taskStatus)))

\* String(stateRaw || '').toLowerCase()
StateText(data) == ToLowerCase(JsString(Or(StateRaw(data), Str(""))))

\* successFlag === k
FlagIs(data, k) == data.successFlag = Num(k)

\* normalizeKieStatusToSimple with the flag compared loosely (==), a faulty variant
normalizeLooseFlag(json) ==
  LET data  == DataOrSelf(json)
      state == StateText(data)
      flag(k) == FlagIs(data, k) \/ data.successFlag = Str(NumStr(k))
  IN  IF flag(1) \/ state \in {"success", "succeed", "completed", "done"}
        THEN "completed"
      ELSE IF flag(2) \/ flag(3) \/ state \in {"failed", "error", "fail"}
        THEN "failed"
      ELSE "processing"

\* normalizeKieStatusToSimple with the failure branch tested first, a faulty variant
normalizeFailedFirst(json) ==
  LET data  == DataOrSelf(json)
      state == StateText(data)
  IN  IF FlagIs(data, 2) \/ FlagIs(data, 3) \/ state \in {"failed", "error", "fail"}
        THEN "failed"
      ELSE IF FlagIs(data, 1) \/ state \in {"success", "succeed", "completed", "done"}
        THEN "completed"
      ELSE "processing"

normalizeKieStatusToSimple(json) ==
  LET data  == DataOrSelf(json)
      state == StateText(data)
  IN  IF FlagIs(data, 1) \/ state \in {"success", "succeed", "completed", "done"}
        THEN "completed"
      ELSE IF FlagIs(data, 2) \/ FlagIs(data, 3) \/ state \in {"failed", "error", "fail"}
        THEN "failed"
      ELSE "processing"

extractFirstResultUrl(json) ==
  LET data     == DataOrSelf(json)
      response == ResponseOf(data)
      urls     == Or(response.resultUrls, Or(response.result_urls, Or(response.urls,
                  Or(data.resultUrls, Or(data.result_urls, Or(data.urls, Arr(<<>>)))))))
      taskResult == IF data.task_result.present THEN data.task_result ELSE data.taskResult
      maybe    == Or(taskResult.video0url, taskResult.image0url)
  IN  IF NonEmptyArray(urls) THEN FirstOf(urls)
      ELSE IF Truthy(maybe) THEN maybe
      ELSE Or(data.video_url, Or(data.url, Null))

\* data?.errorMessage || data?.message || json?.msg || fallback
ErrorMessageOf(json, fallback) ==
  LET data == DataOrEmpty(json)
  IN  Or(data.errorMessage, Or(data.message, Or(json.msg, Str(fallback))))

-----------------------------------------------------------------------------
(* Status-poll responses of the surface adapters, as built from one        *)
(* fetched record.  A response body is a record holding exactly the keys   *)
(* the handler writes.                                                     *)

\* GET /v1/videos/:taskId, task id starting with "veo"
VeoStatusResponse(json) ==
  LET data == DataOrEmpty(json)
      sf   == data.successFlag
  IN  IF sf = Num(1)
        THEN [status |-> "completed",
              video_url |-> Or(FirstOf(Or(data.response.resultUrls, Arr(<<>>))), Null),
              progress |-> Num(1)]
      ELSE IF sf = Num(2) \/ sf = Num(3)
        THEN [status |-> "failed",
              message |-> Or(data.errorMessage, Or(json.msg, Str("generation failed")))]
      ELSE [status |-> "processing", progress |-> Num(0)]

\* faulty variant: the failed answer also carries the URL found in the record
MarketStatusResponseKeepsUrl(json) ==
  LET status == normalizeKieStatusToSimple(json)
      url    == extractFirstResultUrl(json)
      data   == DataOrEmpty(json)
      progress == IF data.progress.t = "number" THEN data.progress ELSE Undef
  IN  IF status = "completed"
        THEN [status |-> "completed", video_url |-> url, progress |-> Num(1)]
      ELSE IF status = "failed"
        THEN [status |-> "failed", video_url |-> url,
              message |-> ErrorMessageOf(json, "generation failed")]
      ELSE [status |-> "processing", progress |-> Coalesce(progress, Num(0))]

\* GET /v1/videos/:taskId, any other task id (market tasks)
MarketStatusResponse(json) ==
  LET status == normalizeKieStatusToSimple(json)
      url    == extractFirstResultUrl(json)
      data   == DataOrEmpty(json)
      progress == IF data.progress.t = "number" THEN data.progress ELSE Undef
  IN  IF status = "completed"
        THEN [status |-> "completed", video_url |-> url, progress |-> Num(1)]
      ELSE IF status = "failed"
        THEN [status |-> "failed", message |-> ErrorMessageOf(json, "generation failed")]
      ELSE [status |-> "processing", progress |-> Coalesce(progress, Num(0))]

\* faulty variant: a finished job is answered with the gateway's own word
\* for it instead of the vendor's
KlingStatusResponseOwnWord(json) ==
  LET status == normalizeKieStatusToSimple(json)
      url    == extractFirstResultUrl(json)
  IN  IF status = "completed"
        THEN [task_status |-> "completed", task_result_video0url |-> url]
      ELSE IF status = "failed"
        THEN [task_status |-> "failed", task_status_msg |-> ErrorMessageOf(json, "failed")]
      ELSE [task_status |-> "processing"]

\* GET /kling/v1/videos/text2video/:taskId and .../image2video/:taskId
KlingStatusResponse(json) ==
  LET status == normalizeKieStatusToSimple(json)
      url    == extractFirstResultUrl(json)
  IN  IF status = "completed"
        THEN [task_status |-> "succeed", task_result_video0url |-> url]
      ELSE IF status = "failed"
        THEN [task_status |-> "failed", task_status_msg |-> ErrorMessageOf(json, "failed")]
      ELSE [task_status |-> "processing"]

NoResp == [none |-> TRUE]

-----------------------------------------------------------------------------
(* Credentials and the usage ledger                                        *)

\* what getBearerToken(req) can return: "" for a request without a usable
\* Authorization header, otherwise the token
ApiKeys == {"", "key-a", "key-b"}

\* sha256Short(str): the first 16 hex digits of the SHA-256 digest, written
\* here by a name for each digest; distinct keys of ApiKeys have distinct
\* digests
sha256Short(str) ==
  CASE str = "key-a" -> "digest-of-key-a"
    [] str = "key-b" -> "digest-of-key-b"
    [] OTHER -> "digest-of-empty"

KeyHashes == { sha256Short(k) : k \in ApiKeys \ {""} }

\* line 151: the number of entries kept per key hash
UsageLogCap == 2000

\* line 143: the empty Map; get(keyHash) || [] reads a missing key as []
NoLogs == [h \in KeyHashes |-> <<>>]

\* faulty variant: the list is cut one entry late
UnshiftCappedOneLate(arr, log) ==
  LET grown == <<log>> \o arr
  IN  IF Len(grown) > UsageLogCap + 1 THEN SubSeq(grown, 1, UsageLogCap + 1) ELSE grown

\* lines 149-151: arr.unshift(log); if (arr.length > 2000) arr.length = 2000
UnshiftCapped(arr, log) ==
  LET grown == <<log>> \o arr
  IN  IF Len(grown) > UsageLogCap THEN SubSeq(grown, 1, UsageLogCap) ELSE grown

\* faulty variant: the list is rebuilt from [] on every call
pushUsageLogFreshList(logs, apiKey, log) ==
  IF apiKey = ""
    THEN logs
    ELSE [logs EXCEPT ![sha256Short(apiKey)] = <<log>>]

\* lines 145-153
pushUsageLog(logs, apiKey, log) ==
  IF apiKey = ""
    THEN logs
    ELSE [logs EXCEPT ![sha256Short(apiKey)] = UnshiftCapped(@, log)]

-----------------------------------------------------------------------------
(* Idle values of each part                                                *)

NormIdle ==
  /\ nJson = <<>> /\ nOp = "none" /\ nStatus = "" /\ nResp = NoResp

WaitIdle ==
  /\ now = 0 /\ wStart = 0 /\ wpc = "idle" /\ wPolls = 0 /\ wSleeps = 0 /\ wPending = 0
  /\ wOutcome = "" /\ wUrls = <<>> /\ wMsg = "" /\ wLast = <<>>
  /\ clientGone = FALSE

ProbeIdle ==
  /\ pFn = "none" /\ pKey = FALSE /\ pBufLen = 0 /\ ppc = "idle" /\ pIdx = 0
  /\ pCalls = <<>> /\ pOutcomes = <<>> /\ pResult = [kind |-> "none"]

ChatCtlIdle ==
  /\ cKey = "" /\ cpc = "idle" /\ cIdx = 0 /\ cContacted = <<>> /\ cOutcomes = <<>>
  /\ cOuterAborted = FALSE /\ cLinked = FALSE /\ cInnerAborted = FALSE /\ cTimer = FALSE
  /\ cRes = [sent |-> "nothing"]

ChatIdle == ChatCtlIdle /\ usageLogs = NoLogs

NoJob == [family |-> "none", id |-> ""]

ApiIdle ==
  /\ rSurface = "none" /\ rKey = "" /\ rIn = <<>> /\ rpc = "idle" /\ rCalls = <<>>
  /\ rUrls = <<>> /\ rGot = <<>> /\ rRes = [sent |-> "nothing"]
  /\ rJob = NoJob

LedgerIdle ==
  /\ lCount = <<>> /\ lInFlight = {}

MimeIdle == mBuf = <<>> /\ mMime = ""

StoreIdle == sGenerations = <<>> /\ sCharacters = <<>>

BatchIdle ==
  /\ bOpt = 0 /\ bTasks = <<>> /\ bRunning = FALSE /\ bPaused = FALSE /\ bpc = "idle"
  /\ bNext = 0 /\ bCount = <<>> /\ bResults = <<>> /\ bErrors = <<>> /\ bW = <<>>
  /\ bThrown = 0

ServerIdle ==
  /\ NormIdle /\ WaitIdle /\ ProbeIdle /\ ChatCtlIdle /\ ApiIdle /\ LedgerIdle
  /\ clientGone = FALSE

NoError == [message |-> Undef, attempt |-> 0]

NoOutcome == [threw |-> FALSE, value |-> "", error |-> NoError]

RetryIdle ==
  /\ kManual = "" /\ kStored = [primary |-> "", backup |-> ""] /\ kOnRetry = FALSE
  /\ kpc = "idle" /\ kCalls = <<>> /\ kFired = 0
  /\ kErr = NoError /\ kOut = NoOutcome

LruIdle ==
  /\ uMax = 0 /\ uCache = <<>> /\ uRecent = <<>>
  /\ uOp = [op |-> "none", key |-> "", ret |-> ""]

NoEntry == [value |-> "", timestamp |-> 0, ttl |-> Undef]

NoGet == [ret |-> "none", value |-> "", clean |-> FALSE]

DbIdle ==
  /\ dLimit = 0 /\ dNow = 0 /\ dTicks = 0
  /\ dMem = NoEntry /\ dStore = NoEntry /\ dQueue = <<>>
  /\ dSet = NoEntry /\ dClean = FALSE /\ dGot = NoGet

QueueIdle ==
  /\ qMax = 0 /\ qQueue = <<>> /\ qTimer = FALSE /\ qFlushing = FALSE
  /\ qBatches = <<>> /\ qSettled = {} /\ qAdded = 0 /\ qpc = "idle"

EarlierIdle == ServerIdle /\ usageLogs = NoLogs /\ MimeIdle /\ StoreIdle /\ BatchIdle

\* BEGIN later idle
LaterIdle == RetryIdle /\ LruIdle /\ DbIdle /\ QueueIdle
ExceptRetryIdle == EarlierIdle /\ LruIdle /\ DbIdle /\ QueueIdle
ExceptLruIdle == EarlierIdle /\ RetryIdle /\ DbIdle /\ QueueIdle
ExceptDbIdle == EarlierIdle /\ RetryIdle /\ LruIdle /\ QueueIdle
ExceptQueueIdle == EarlierIdle /\ RetryIdle /\ LruIdle /\ DbIdle
\* END later idle

RestIdle == MimeIdle /\ StoreIdle /\ BatchIdle /\ LaterIdle

-----------------------------------------------------------------------------
(* SpecNorm: the normalizer and the poll handlers applied to raw records   *)

SentinelValues == {Undef, Null, Num(0), Num(1), Num(2), Num(3), Str("1"), Str("2")}

StateValues ==
  {Undef, Null, Str(""), Str("success"), Str("succeed"), Str("completed"), Str("done"),
   Str("failed"), Str("error"), Str("fail"), Str("SUCCESS"), Str("Failed"),
   Str("waiting"), Str("generating"), Num(1)}

MkData(sf, st, st2, st3, st4, withUrl, withMsg) ==
  [EmptyObject EXCEPT
     !.successFlag = sf, !.state = st, !.status = st2, !.task_status = st3,
     !.taskStatus = st4,
     !.response = IF withUrl
                    THEN [NoResponse EXCEPT !.present = TRUE, !.resultUrls = Arr(<<"u1", "u2">>)]
                    ELSE NoResponse,
     !.errorMessage = IF withMsg THEN Str("quota exceeded") ELSE Undef]

\* the same keys inside a data wrapper, or at the top level of the body
MkJson(wrapped, d) ==
  IF wrapped THEN [data |-> d, top |-> EmptyObject, msg |-> Str("upstream msg")]
  ELSE [data |-> NoData, top |-> d, msg |-> Str("upstream msg")]

NormRecords ==
  { MkJson(w, MkData(sf, st, st2, st3, st4, u, m)) :
      w \in BOOLEAN, sf \in SentinelValues, st \in StateValues,
      st2 \in {Undef, Str("success"), Str("fail")},
      st3 \in {Undef, Str("failed")}, st4 \in {Undef, Str("done")},
      u \in BOOLEAN, m \in BOOLEAN }

InitNorm ==
  /\ nJson \in NormRecords /\ nOp = "none" /\ nStatus = "" /\ nResp = NoResp
  /\ WaitIdle /\ ProbeIdle /\ ChatIdle /\ ApiIdle /\ LedgerIdle /\ RestIdle

Normalize ==
  /\ nOp = "none"
  /\ nOp' = "normalize"
  /\ nStatus' = normalizeKieStatusToSimple(nJson)
  /\ UNCHANGED <<nJson, nResp, waitVars, clientGone, probeVars, chatVars, apiVars, ledgerVars, restVars>>

PollVideoMarket ==
  /\ nOp = "none"
  /\ nOp' = "video-market"
  /\ nResp' = MarketStatusResponse(nJson)
  /\ UNCHANGED <<nJson, nStatus, waitVars, clientGone, probeVars, chatVars, apiVars, ledgerVars, restVars>>

PollVideoVeo ==
  /\ nOp = "none"
  /\ nOp' = "video-veo"
  /\ nResp' = VeoStatusResponse(nJson)
  /\ UNCHANGED <<nJson, nStatus, waitVars, clientGone, probeVars, chatVars, apiVars, ledgerVars, restVars>>

PollKling ==
  /\ nOp = "none"
  /\ nOp' = "kling"
  /\ nResp' = KlingStatusResponse(nJson)
  /\ UNCHANGED <<nJson, nStatus, waitVars, clientGone, probeVars, chatVars, apiVars, ledgerVars, restVars>>

NextNorm == Normalize \/ PollVideoMarket \/ PollVideoVeo \/ PollKling

SpecNorm == InitNorm /\ [][NextNorm]_vars

\* the keys of a status answer
KeysOf(resp) == DOMAIN resp

VideoPolled == nOp \in {"video-market", "video-veo"}

\* C17: a failed status answer carries no result URL (no video_url, no
\* task_result) and a completed one carries no error message (no message,
\* no task_status_msg).
C17_JobRecordInvariant ==
  /\ VideoPolled =>
       /\ nResp.status = "failed" => "video_url" \notin KeysOf(nResp)
       /\ nResp.status = "completed" => "message" \notin KeysOf(nResp)
  /\ nOp = "kling" =>
       /\ nResp.task_status = "failed" => "task_result_video0url" \notin KeysOf(nResp)
       /\ nResp.task_status = "succeed" => "task_status_msg" \notin KeysOf(nResp)

\* a record holding both a failure flag and result URLs was answered as failed
C17_Witness ==
  /\ nOp = "video-market"
  /\ nResp.status = "failed"
  /\ extractFirstResultUrl(nJson) = Str("u1")
  /\ nResp.message = Str("quota exceeded")

\* a record holding both a success flag and an error message was answered
\* as succeeded by the vendor poll
C17_WitnessCompleted ==
  /\ nOp = "kling"
  /\ nResp.task_status = "succeed"
  /\ DataOrSelf(nJson).errorMessage = Str("quota exceeded")

\* C18: every status answer of GET /v1/videos/:taskId carries the three
\* fields status, video_url (a URL or null) and progress.
C18_VideoStatusHasThreeFields ==
  VideoPolled => {"status", "video_url", "progress"} \subseteq KeysOf(nResp)

\* the sentinel and the text tokens the normalizer reads from a record
SentinelOf(json) == DataOrSelf(json).successFlag

TextFieldsOf(json) ==
  LET d == DataOrSelf(json) IN {d.state, d.status, d.task_status, d.taskStatus}

SuccessTokens == {"success", "succeed", "completed", "done"}
FailureTokens == {"failed", "error", "fail"}

HasToken(json, tokens) ==
  \E f \in TextFieldsOf(json) : f.t = "string" /\ ToLowerCase(f.s) \in tokens

\* C1: a record whose successFlag is 1 normalizes to completed, whatever its
\* text-state fields hold, a failure token included.
C1_FlagOneIsCompleted ==
  (nOp = "normalize" /\ SentinelOf(nJson) = Num(1)) => nStatus = "completed"

C1_Witness ==
  /\ nOp = "normalize" /\ SentinelOf(nJson) = Num(1)
  /\ DataOrSelf(nJson).state = Str("failed")
  /\ nStatus = "completed"

\* C2: a record whose successFlag is 2 or 3 normalizes to failed, even when a
\* text-state field holds a success token.
C2_FlagTwoThreeIsFailed ==
  (nOp = "normalize" /\ SentinelOf(nJson) \in {Num(2), Num(3)}) => nStatus = "failed"

\* C3: a record with no recognized sentinel (the numbers 1, 2, 3) and no
\* recognized text token (compared without regard to case) normalizes to
\* processing, and every status surface answers it as still processing.
Unrecognized(json) ==
  /\ SentinelOf(json) \notin {Num(1), Num(2), Num(3)}
  /\ ~HasToken(json, SuccessTokens \cup FailureTokens)

C3_UnrecognizedIsPending ==
  Unrecognized(nJson) =>
    /\ nOp = "normalize" => nStatus = "processing"
    /\ nOp \in {"video-market", "video-veo"} => nResp.status = "processing"
    /\ nOp = "kling" => nResp.task_status = "processing"

C3_Witness ==
  /\ Unrecognized(nJson)
  /\ SentinelOf(nJson) = Str("1")
  /\ DataOrSelf(nJson).state = Str("generating")
  /\ nOp = "video-market" /\ nResp.status = "processing"

-----------------------------------------------------------------------------
(* SpecWait: waitForKieImageResult as called by the generateContent        *)
(* handler, against an upstream whose answer to each poll is free.         *)

FETCH_TIMEOUT_MS == 120000
IMAGE_SYNC_MAX_WAIT_MS == 180000
IMAGE_SYNC_POLL_MS == 2000

\* latency of one record fetch: 0 .. MaxLatencySteps steps of 3 s
MaxLatencySteps == 1
Latencies == { i * 3000 : i \in 0..MaxLatencySteps }

WithUrls(resultUrls, url) ==
  [EmptyObject EXCEPT
     !.response = [NoResponse EXCEPT !.present = TRUE, !.resultUrls = resultUrls],
     !.url = url]

StubPending ==
  { MkJson(TRUE, [EmptyObject EXCEPT !.state = Str("waiting")]),
    MkJson(TRUE, [EmptyObject EXCEPT !.successFlag = Num(0), !.state = Str("generating")]) }

StubCompleted ==
  { \* the structured list
    MkJson(TRUE, [WithUrls(Arr(<<"u1", "u2">>), Str("u9")) EXCEPT !.successFlag = Num(1)]),
    \* an empty structured list, a URL elsewhere in the record
    MkJson(TRUE, [WithUrls(Arr(<<>>), Str("u9")) EXCEPT !.state = Str("success")]),
    \* no structured list, a flat list at the top level of the body
    MkJson(FALSE, [EmptyObject EXCEPT !.state = Str("done"), !.resultUrls = Arr(<<"u3", "u4">>)]),
    \* no URL anywhere
    MkJson(TRUE, [EmptyObject EXCEPT !.successFlag = Num(1)]) }

StubFailed ==
  { MkJson(TRUE, [EmptyObject EXCEPT !.successFlag = Num(2), !.errorMessage = Str("quota exceeded")]),
    MkJson(TRUE, [EmptyObject EXCEPT !.state = Str("fail"), !.message = Str("bad prompt")]),
    MkJson(TRUE, [EmptyObject EXCEPT !.successFlag = Num(3)]),
    \* no message anywhere
    [NoJson EXCEPT !.data = [EmptyObject EXCEPT !.state = Str("error")]],
    \* a body without a data wrapper: msg and errorMessage at the top level
    MkJson(FALSE, [EmptyObject EXCEPT !.state = Str("failed"), !.errorMessage = Str("boom")]) }

StubRecords == StubPending \cup StubCompleted \cup StubFailed

\* line 358: Date.now() - start < IMAGE_SYNC_MAX_WAIT_MS
\* (WithinBudgetEarly: a faulty variant that gives up one interval early)
WithinBudgetEarly(t, start) == t - start < IMAGE_SYNC_MAX_WAIT_MS - IMAGE_SYNC_POLL_MS

WithinBudget(t, start) == t - start < IMAGE_SYNC_MAX_WAIT_MS

\* lines 362-368: what a completed record returns
\* (CompletedUrlsListOnly: a faulty variant without the first-found fallback)
CompletedUrlsListOnly(json) ==
  LET response == DataOrEmpty(json).response
      urls == Or(response.resultUrls, Or(response.result_urls, Arr(<<>>)))
  IN  IF NonEmptyArray(urls) THEN urls.a ELSE <<>>

CompletedUrls(json) ==
  LET response == DataOrEmpty(json).response
      urls  == Or(response.resultUrls, Or(response.result_urls, Arr(<<>>)))
      first == extractFirstResultUrl(json)
  IN  IF NonEmptyArray(urls) THEN urls.a
      ELSE IF Truthy(first) THEN <<JsString(first)>>
      ELSE <<>>

\* lines 361-374: where the loop goes after a poll with this status
\* (AfterPollNoSleep: a faulty variant that polls again without waiting)
AfterPollNoSleep(status) ==
  IF status \in {"completed", "failed"} THEN "done" ELSE "check"

AfterPoll(status) ==
  IF status \in {"completed", "failed"} THEN "done" ELSE "sleep"

InitWait ==
  /\ now = 7000 /\ wStart = 0 /\ wpc = "idle" /\ wPolls = 0 /\ wSleeps = 0 /\ wPending = 0
  /\ wOutcome = "" /\ wUrls = <<>> /\ wMsg = "" /\ wLast = NoJson
  /\ clientGone = FALSE
  /\ NormIdle /\ ProbeIdle /\ ChatIdle /\ ApiIdle /\ LedgerIdle /\ RestIdle

\* line 357
WaitEnter ==
  /\ wpc = "idle"
  /\ wStart' = now
  /\ wpc' = "check"
  /\ UNCHANGED <<now, wPolls, wSleeps, wPending, wOutcome, wUrls, wMsg, wLast>>
  /\ UNCHANGED <<normVars, clientGone, probeVars, chatVars, apiVars, ledgerVars, restVars>>

\* line 358 and, when the loop is left, line 376
WaitCheck ==
  /\ wpc = "check"
  /\ IF WithinBudget(now, wStart)
       THEN /\ wpc' = "fetch"
            /\ wPolls' = wPolls + 1
            /\ UNCHANGED <<wOutcome, wMsg>>
       ELSE /\ wpc' = "done"
            /\ wOutcome' = "WaitTimeout"
            /\ wMsg' = "Image generation timed out"
            /\ UNCHANGED wPolls
  /\ UNCHANGED <<now, wStart, wSleeps, wPending, wUrls, wLast>>
  /\ UNCHANGED <<normVars, clientGone, probeVars, chatVars, apiVars, ledgerVars, restVars>>

\* lines 359-373: the record fetch is answered with a success status
WaitFetchAnswer ==
  /\ wpc = "fetch"
  /\ \E json \in StubRecords, lat \in Latencies :
       LET status == normalizeKieStatusToSimple(json) IN
       /\ now' = now + lat
       /\ wLast' = json
       /\ wpc' = AfterPoll(status)
       /\ wPending' = IF status = "processing" THEN wPending + 1 ELSE wPending
       /\ wOutcome' = IF status = "completed" THEN "urls"
                      ELSE IF status = "failed" THEN "JobFailed" ELSE wOutcome
       /\ wUrls' = IF status = "completed" THEN CompletedUrls(json) ELSE wUrls
       /\ wMsg' = IF status = "failed"
                    THEN JsString(ErrorMessageOf(json, "image generation failed"))
                    ELSE wMsg
  /\ UNCHANGED <<wStart, wPolls, wSleeps>>
  /\ UNCHANGED <<normVars, clientGone, probeVars, chatVars, apiVars, ledgerVars, restVars>>

\* lines 346-353, 103-115: the fetch rejects (network error, the
\* FETCH_TIMEOUT_MS abort) or answers a non-success status; the Error
\* leaves waitForKieImageResult
WaitFetchThrows ==
  /\ wpc = "fetch"
  /\ \E lat \in Latencies \cup {FETCH_TIMEOUT_MS} : now' = now + lat
  /\ wpc' = "done"
  /\ wOutcome' = "FetchError"
  /\ wMsg' = "KIE image record-info failed"
  /\ UNCHANGED <<wStart, wPolls, wSleeps, wPending, wUrls, wLast>>
  /\ UNCHANGED <<normVars, clientGone, probeVars, chatVars, apiVars, ledgerVars, restVars>>

\* line 374
WaitSleep ==
  /\ wpc = "sleep"
  /\ now' = now + IMAGE_SYNC_POLL_MS
  /\ wSleeps' = wSleeps + 1
  /\ wpc' = "check"
  /\ UNCHANGED <<wStart, wPolls, wPending, wOutcome, wUrls, wMsg, wLast>>
  /\ UNCHANGED <<normVars, clientGone, probeVars, chatVars, apiVars, ledgerVars, restVars>>

\* The caller's connection closes while the handler awaits the wait engine.
\* The handler registers no listener for it and passes no signal on, so
\* nothing but the flag changes.
ClientDisconnect ==
  /\ wpc \in {"check", "fetch", "sleep"}
  /\ ~clientGone
  /\ clientGone' = TRUE
  /\ UNCHANGED <<normVars, waitVars, probeVars, chatVars, apiVars, ledgerVars, restVars>>

WaitEngine == WaitEnter \/ WaitCheck \/ WaitFetchAnswer \/ WaitFetchThrows \/ WaitSleep

NextWait == WaitEngine \/ ClientDisconnect

SpecWait == InitWait /\ [][NextWait]_vars

\* The engine alone, under the fairness of the event loop, which runs every
\* pending continuation and timer.
FairWait == InitWait /\ [][WaitEngine]_vars /\ WF_vars(WaitEngine)

Elapsed == now - wStart

\* the structured URL list of a record: data.response.resultUrls, or
\* data.response.result_urls when the former is absent
StructuredList(json) ==
  LET r == json.data.response
  IN  IF NonEmptyArray(r.resultUrls) THEN r.resultUrls.a
      ELSE IF r.resultUrls.t = "undefined" /\ NonEmptyArray(r.result_urls) THEN r.result_urls.a
      ELSE <<>>

\* C4: when the upstream answers processing k times and then completed, the
\* engine returns after exactly k+1 record fetches, having waited the poll
\* interval once between consecutive polls, and issues no fetch afterwards.
C4_ReturnsAfterKPlusOnePolls ==
  (wOutcome = "urls" \/ normalizeKieStatusToSimple(wLast) = "completed") =>
    /\ wpc = "done" /\ wOutcome = "urls"
    /\ normalizeKieStatusToSimple(wLast) = "completed"
    /\ wPolls = wPending + 1
    /\ wSleeps = wPending
    /\ Elapsed >= wSleeps * IMAGE_SYNC_POLL_MS
    /\ StructuredList(wLast) # <<>> => wUrls = StructuredList(wLast)

C4_Witness ==
  /\ wpc = "done" /\ wOutcome = "urls"
  /\ wPending = 3 /\ wPolls = 4 /\ wSleeps = 3
  /\ wUrls = <<"u1", "u2">>

\* C5: against an upstream that only ever answers processing the engine
\* terminates, with WaitTimeout and nothing else, and WaitTimeout is raised
\* only once the time elapsed since the start has reached the budget.
OnlyPendingSeen == wPolls = wPending

C5_TimeoutOnlyAtBudget ==
  /\ [](wOutcome = "WaitTimeout" => Elapsed >= IMAGE_SYNC_MAX_WAIT_MS)
  /\ []((wpc = "done" /\ OnlyPendingSeen) => wOutcome = "WaitTimeout")
  /\ <>(wpc = "done")

C5_Witness ==
  /\ wpc = "done" /\ OnlyPendingSeen /\ wOutcome = "WaitTimeout"
  /\ wPolls > 3
  /\ Elapsed > IMAGE_SYNC_MAX_WAIT_MS

\* C6: a poll that normalizes to failed ends the wait at once with JobFailed
\* and the upstream's error message (data.errorMessage, else data.message,
\* else msg, else the fixed text); a poll that normalizes to completed ends
\* it with the structured URL list, or with the one first-found URL when
\* that list is empty; WaitTimeout is raised only when every poll was
\* answered processing.
UpstreamMessage(json) ==
  IF json.data.errorMessage.t = "string" /\ json.data.errorMessage.s # ""
    THEN json.data.errorMessage.s
  ELSE IF json.data.message.t = "string" /\ json.data.message.s # ""
    THEN json.data.message.s
  ELSE IF json.msg.t = "string" /\ json.msg.s # "" THEN json.msg.s
  ELSE "image generation failed"

C6_WitnessFlat ==
  /\ wOutcome = "JobFailed" /\ ~wLast.data.present
  /\ wLast.top.errorMessage = Str("boom") /\ wMsg = "upstream msg"

C6_WitnessFallback ==
  /\ wOutcome = "urls" /\ StructuredList(wLast) = <<>> /\ wUrls = <<"u9">>

\* C7: once the caller has disconnected, the wait engine issues no further
\* record fetch for that request.
C7_NoFetchAfterDisconnect == [][clientGone => wPolls' = wPolls]_vars

-----------------------------------------------------------------------------
(* SpecProbe: the candidate loops of kieUploadBuffer and kieImageGenerate  *)

UploadCandidates ==
  <<"/api/v1/files/upload", "/api/v1/file/upload", "/api/v1/upload">>

ImageCandidates ==
  << [gen |-> "/api/v1/gpt-image/generate", rec |-> "/api/v1/gpt-image/record-info"],
     [gen |-> "/api/v1/gpt-image/generate", rec |-> "/api/v1/gpt-image/recordInfo"],
     [gen |-> "/api/v1/image/generate",     rec |-> "/api/v1/image/record-info"],
     [gen |-> "/api/v1/images/generate",    rec |-> "/api/v1/images/record-info"] >>

\* The keys of a response body that the two functions read.
NoKeys ==
  [present |-> FALSE,
   url |-> Undef, fileUrl |-> Undef, file_url |-> Undef, downloadUrl |-> Undef,
   download_url |-> Undef, resultUrl |-> Undef, result_url |-> Undef,
   taskId |-> Undef, task_id |-> Undef]

Keys == [NoKeys EXCEPT !.present = TRUE]

\* What one candidate does: the fetch throws, or answers a status and a body.
Threw == [threw |-> TRUE, ok |-> FALSE, data |-> NoKeys, top |-> Keys]
Answer(ok, data, top) == [threw |-> FALSE, ok |-> ok, data |-> data, top |-> top]

UploadAnswers ==
  { Threw,
    Answer(FALSE, NoKeys, Keys),
    \* a non-success status whose body nevertheless holds a URL
    Answer(FALSE, [Keys EXCEPT !.url = Str("https://h/err")], Keys),
    Answer(TRUE, [Keys EXCEPT !.url = Str("https://h/a")], Keys),
    Answer(TRUE, NoKeys, [Keys EXCEPT !.file_url = Str("https://h/b")]),
    Answer(TRUE, [Keys EXCEPT !.url = Str(""), !.result_url = Str("https://h/c")], Keys),
    \* success statuses without a usable URL
    Answer(TRUE, Keys, Keys),
    Answer(TRUE, [Keys EXCEPT !.url = Num(7), !.fileUrl = Str("https://h/d")], Keys) }

GenerateAnswers ==
  { Threw,
    Answer(FALSE, NoKeys, Keys),
    Answer(TRUE, [Keys EXCEPT !.taskId = Str("t1")], Keys),
    Answer(TRUE, NoKeys, [Keys EXCEPT !.task_id = Str("t2")]),
    \* a success status without a task id
    Answer(TRUE, Keys, Keys) }

\* lines 191-199: json?.data ?? json, then the first truthy of the seven keys
UploadFileUrl(resp) ==
  LET data == IF resp.data.present THEN resp.data ELSE resp.top
  IN  Or(data.url, Or(data.fileUrl, Or(data.file_url, Or(data.downloadUrl,
      Or(data.download_url, Or(data.resultUrl, data.result_url))))))

\* line 337: json?.data?.taskId || json?.data?.task_id || json?.taskId || json?.task_id
GenerateTaskId(resp) ==
  Or(resp.data.taskId, Or(resp.data.task_id, Or(resp.top.taskId, resp.top.task_id)))

\* lines 175-206: one pass of the upload loop: "return", or "continue"
\* (UploadStepNoTypeCheck: a faulty variant without the typeof test of line 201)
UploadStepNoTypeCheck(resp) ==
  IF resp.threw THEN "continue"
  ELSE IF ~resp.ok THEN "continue"
  ELSE IF Truthy(UploadFileUrl(resp)) THEN "return"
  ELSE "continue"

UploadStep(resp) ==
  IF resp.threw THEN "continue"
  ELSE IF ~resp.ok THEN "continue"
  ELSE IF Truthy(UploadFileUrl(resp)) /\ UploadFileUrl(resp).t = "string" THEN "return"
  ELSE "continue"

\* lines 326-341: one pass of the generate loop
GenerateStep(resp) ==
  IF resp.threw THEN "continue"
  ELSE IF ~resp.ok THEN "continue"
  ELSE IF Truthy(GenerateTaskId(resp)) THEN "return"
  ELSE "continue"

\* line 174: the loop has a candidate left
\* (UploadHasNextOffByOne: a faulty variant that skips the last candidate)
UploadHasNextOffByOne(idx) == idx < Len(UploadCandidates)

UploadHasNext(idx) == idx <= Len(UploadCandidates)

\* line 325
GenerateHasNext(idx) == idx <= Len(ImageCandidates)

UploadFailed ==
  "KIE file upload failed (unknown upload endpoint/response). You may need to set KIE_API_BASE or update upload endpoint candidates."

GenerateFailed == "KIE image generate failed (unknown endpoint/response)."

\* buffer lengths of the uploads tried: empty, and 1 .. MaxBufLen bytes
MaxBufLen == 1

InitProbe ==
  /\ pFn \in {"upload", "generate"}
  /\ pKey \in BOOLEAN
  /\ pBufLen \in 0..MaxBufLen
  /\ (pFn = "generate" => (pKey /\ pBufLen = 0))
  /\ ppc = "enter" /\ pIdx = 1 /\ pCalls = <<>> /\ pOutcomes = <<>>
  /\ pResult = [kind |-> "none"]
  /\ NormIdle /\ WaitIdle /\ ChatIdle /\ ApiIdle /\ LedgerIdle /\ RestIdle

\* faulty variant: an empty buffer is not refused before the loop
UploadEnterNoEmptyCheck ==
  /\ pFn = "upload" /\ ppc = "enter"
  /\ IF ~pKey
       THEN ppc' = "done" /\ pResult' = [kind |-> "error", message |-> "Missing APIKey"]
     ELSE ppc' = "loop" /\ UNCHANGED pResult
  /\ UNCHANGED <<pFn, pKey, pBufLen, pIdx, pCalls, pOutcomes>>
  /\ UNCHANGED <<normVars, waitVars, clientGone, chatVars, apiVars, ledgerVars, restVars>>

\* lines 160-161
UploadEnter ==
  /\ pFn = "upload" /\ ppc = "enter"
  /\ IF ~pKey
       THEN ppc' = "done" /\ pResult' = [kind |-> "error", message |-> "Missing APIKey"]
     ELSE IF pBufLen = 0
       THEN ppc' = "done" /\ pResult' = [kind |-> "error", message |-> "Empty upload"]
     ELSE ppc' = "loop" /\ UNCHANGED pResult
  /\ UNCHANGED <<pFn, pKey, pBufLen, pIdx, pCalls, pOutcomes>>
  /\ UNCHANGED <<normVars, waitVars, clientGone, chatVars, apiVars, ledgerVars, restVars>>

\* lines 174-207: one candidate is fetched and its outcome handled
UploadTry ==
  /\ pFn = "upload" /\ ppc = "loop" /\ UploadHasNext(pIdx)
  /\ \E resp \in UploadAnswers :
       /\ pCalls' = Append(pCalls, UploadCandidates[pIdx])
       /\ pOutcomes' = Append(pOutcomes, resp)
       /\ IF UploadStep(resp) = "return"
            THEN /\ ppc' = "done"
                 /\ pResult' = [kind |-> "url", value |-> UploadFileUrl(resp).s,
                                candidate |-> pIdx]
                 /\ UNCHANGED pIdx
            ELSE /\ pIdx' = pIdx + 1
                 /\ UNCHANGED <<ppc, pResult>>
  /\ UNCHANGED <<pFn, pKey, pBufLen>>
  /\ UNCHANGED <<normVars, waitVars, clientGone, chatVars, apiVars, ledgerVars, restVars>>

\* line 209
UploadExhausted ==
  /\ pFn = "upload" /\ ppc = "loop" /\ ~UploadHasNext(pIdx)
  /\ ppc' = "done"
  /\ pResult' = [kind |-> "error", message |-> UploadFailed]
  /\ UNCHANGED <<pFn, pKey, pBufLen, pIdx, pCalls, pOutcomes>>
  /\ UNCHANGED <<normVars, waitVars, clientGone, chatVars, apiVars, ledgerVars, restVars>>

\* line 318-324: kieImageGenerate has no guard before its loop
GenerateEnter ==
  /\ pFn = "generate" /\ ppc = "enter"
  /\ ppc' = "loop"
  /\ UNCHANGED <<pFn, pKey, pBufLen, pIdx, pCalls, pOutcomes, pResult>>
  /\ UNCHANGED <<normVars, waitVars, clientGone, chatVars, apiVars, ledgerVars, restVars>>

\* lines 325-342
GenerateTry ==
  /\ pFn = "generate" /\ ppc = "loop" /\ GenerateHasNext(pIdx)
  /\ \E resp \in GenerateAnswers :
       /\ pCalls' = Append(pCalls, ImageCandidates[pIdx].gen)
       /\ pOutcomes' = Append(pOutcomes, resp)
       /\ IF GenerateStep(resp) = "return"
            THEN /\ ppc' = "done"
                 /\ pResult' = [kind |-> "task", taskId |-> GenerateTaskId(resp).s,
                                recordBase |-> ImageCandidates[pIdx].rec,
                                candidate |-> pIdx]
                 /\ UNCHANGED pIdx
            ELSE /\ pIdx' = pIdx + 1
                 /\ UNCHANGED <<ppc, pResult>>
  /\ UNCHANGED <<pFn, pKey, pBufLen>>
  /\ UNCHANGED <<normVars, waitVars, clientGone, chatVars, apiVars, ledgerVars, restVars>>

\* line 343
GenerateExhausted ==
  /\ pFn = "generate" /\ ppc = "loop" /\ ~GenerateHasNext(pIdx)
  /\ ppc' = "done"
  /\ pResult' = [kind |-> "error", message |-> GenerateFailed]
  /\ UNCHANGED <<pFn, pKey, pBufLen, pIdx, pCalls, pOutcomes>>
  /\ UNCHANGED <<normVars, waitVars, clientGone, chatVars, apiVars, ledgerVars, restVars>>

NextProbe ==
  \/ UploadEnter \/ UploadTry \/ UploadExhausted
  \/ GenerateEnter \/ GenerateTry \/ GenerateExhausted

SpecProbe == InitProbe /\ [][NextProbe]_vars

InOrder(calls, candidates) ==
  /\ Len(calls) <= Len(candidates)
  /\ \A i \in 1..Len(calls) : calls[i] = candidates[i]

ProbeCandidates ==
  IF pFn = "upload" THEN UploadCandidates
  ELSE [i \in 1..Len(ImageCandidates) |-> ImageCandidates[i].gen]

SuccessStatus(resp) == ~resp.threw /\ resp.ok

\* a success status whose body carries the result: a non-empty string URL
\* as the first truthy of the URL keys, or a task id
Usable(resp) ==
  /\ SuccessStatus(resp)
  /\ IF pFn = "upload"
       THEN UploadFileUrl(resp).t = "string" /\ UploadFileUrl(resp).s # ""
       ELSE Truthy(GenerateTaskId(resp))

Selected == pResult.kind \in {"url", "task"}

\* C9 as stated: probing stops at the first candidate that returns a success
\* status; that candidate is selected and no later one is invoked.
C9_StopsAtFirstSuccessStatus ==
  \A i \in 1..Len(pOutcomes) :
    SuccessStatus(pOutcomes[i]) =>
      /\ Len(pCalls) = i
      /\ ppc = "done" /\ Selected /\ pResult.candidate = i

\* C9 as amended: candidates are invoked in list order, each once; probing
\* stops at the first candidate that returns a success status carrying a
\* usable result (a hosted URL string, a task id); that candidate is
\* selected and no later one is invoked; a success status without a usable
\* result counts as a failure and the next candidate is tried.
C9_StopsAtFirstUsable ==
  /\ InOrder(pCalls, ProbeCandidates)
  /\ Len(pOutcomes) = Len(pCalls)
  /\ \A i \in 1..Len(pOutcomes) :
       IF Usable(pOutcomes[i])
         THEN /\ Len(pCalls) = i
              /\ ppc = "done" /\ Selected /\ pResult.candidate = i
         ELSE (ppc = "loop" => pIdx > i)
  /\ Selected =>
       /\ pResult.candidate = Len(pCalls)
       /\ Usable(pOutcomes[Len(pCalls)])
       /\ pFn = "upload" => pResult.value # ""

C9_Witness ==
  /\ pFn = "upload" /\ ppc = "done" /\ Selected
  /\ Len(pCalls) = 3 /\ pResult.candidate = 3
  /\ pOutcomes[1].threw
  /\ SuccessStatus(pOutcomes[2]) /\ ~Usable(pOutcomes[2])
  /\ pResult.value = "https://h/b"

\* C10: when every candidate fails by a non-success status or by throwing,
\* each candidate is invoked exactly once, in order, and only then is the
\* aggregate error raised; no error leaves the loop before the last
\* candidate has been tried.
AllFail == \A i \in 1..Len(pOutcomes) : pOutcomes[i].threw \/ ~pOutcomes[i].ok

AggregateError ==
  /\ pResult.kind = "error"
  /\ pResult.message = (IF pFn = "upload" THEN UploadFailed ELSE GenerateFailed)

C10_AllFailThenAggregate ==
  /\ (ppc = "done" /\ AllFail /\ pCalls # <<>>) =>
       (pCalls = ProbeCandidates /\ AggregateError)
  /\ (pResult.kind = "error" /\ pCalls # <<>>) =>
       (Len(pCalls) = Len(ProbeCandidates) /\ AggregateError)
  /\ (ppc = "done" /\ pCalls = <<>>) => (pFn = "upload" /\ (~pKey \/ pBufLen = 0))

C10_Witness ==
  /\ pFn = "upload" /\ ppc = "done" /\ AllFail /\ AggregateError
  /\ Len(pCalls) = 3
  /\ pOutcomes[1].threw /\ ~pOutcomes[2].threw /\ pOutcomes[3].threw

-----------------------------------------------------------------------------
(* SpecChat: POST /v1/chat/completions                                     *)

ChatCandidates == <<"/v1/chat/completions", "/api/v1/chat/completions">>

\* body chunks of one upstream stream
MaxChunks == 2

\* What an upstream candidate answers: its status, its header names, and
\* whether the response has a body stream.
ChatAnswers ==
  [status : {200, 404, 500},
   headers : SUBSET {"content-type", "content-encoding", "x-request-id"},
   body : BOOLEAN]

NoRes == [sent |-> "nothing"]

\* how one fetch of the loop at lines 1089-1131 ended: the awaited
\* response and its status (line 1103), or a rejection (line 1127)
Responded(status) == [responded |-> TRUE, status |-> status, headers |-> {}]
RespondedWith(ans) == [responded |-> TRUE, status |-> ans.status, headers |-> ans.headers]
Rejected == [responded |-> FALSE, status |-> 0, headers |-> {}]

\* faulty variant: every upstream header is copied
ForwardedHeadersAll(headers) == headers

\* lines 1110-1114: the upstream headers copied to the caller's response
ForwardedHeaders(headers) == { k \in headers : k # "content-encoding" }

\* lines 94-101, withTimeout(signal, ms): the new controller follows the
\* outer signal only through an 'abort' listener, which never runs when
\* the outer signal is aborted already
WithTimeoutLinked(outerAborted) == ~outerAborted

InitChat ==
  /\ cKey \in ApiKeys
  /\ cpc = "enter" /\ cIdx = 0 /\ cContacted = <<>> /\ cOutcomes = <<>>
  /\ cOuterAborted = FALSE
  /\ cLinked = FALSE /\ cInnerAborted = FALSE /\ cTimer = FALSE
  /\ cRes = NoRes /\ usageLogs = NoLogs
  /\ NormIdle /\ WaitIdle /\ ProbeIdle /\ ApiIdle /\ LedgerIdle /\ RestIdle

\* lines 1089-1101 for candidate i, or lines 1133-1135 when none is left
StartCandidate(i) ==
  IF i <= Len(ChatCandidates)
    THEN /\ cIdx' = i
         /\ cContacted' = Append(cContacted, ChatCandidates[i])
         /\ cLinked' = WithTimeoutLinked(cOuterAborted)
         /\ cInnerAborted' = FALSE
         /\ cTimer' = TRUE
         /\ cpc' = "fetching"
         /\ UNCHANGED cRes
    ELSE /\ cpc' = "done"
         /\ cRes' = [sent |-> "json", status |-> 502]
         /\ UNCHANGED <<cIdx, cContacted, cLinked, cInnerAborted, cTimer>>

\* lines 1076-1101: the credential check, the close listener, the first fetch
ChatEnter ==
  /\ cpc = "enter"
  /\ IF cKey = ""
       THEN /\ cpc' = "done"
            /\ cRes' = [sent |-> "json", status |-> 401]
            /\ UNCHANGED <<cIdx, cContacted, cLinked, cInnerAborted, cTimer>>
       ELSE StartCandidate(1)
  /\ UNCHANGED <<cKey, cOutcomes, cOuterAborted, usageLogs>>
  /\ UNCHANGED <<normVars, waitVars, clientGone, probeVars, apiVars, ledgerVars, restVars>>

\* line 1085: req 'close' aborts the controller; the abort reaches the
\* current fetch signal through its listener
ClientClose ==
  /\ cpc \in {"fetching", "piping"}
  /\ ~clientGone
  /\ clientGone' = TRUE
  /\ cOuterAborted' = TRUE
  /\ cInnerAborted' = (cInnerAborted \/ cLinked)
  /\ UNCHANGED <<cKey, cpc, cIdx, cContacted, cOutcomes, cLinked, cTimer, cRes, usageLogs>>
  /\ UNCHANGED <<normVars, waitVars, probeVars, apiVars, ledgerVars, restVars>>

\* line 96: the FETCH_TIMEOUT_MS timer of the current fetch signal fires
TimerFires ==
  /\ cpc \in {"fetching", "piping"}
  /\ cTimer
  /\ cTimer' = FALSE
  /\ cInnerAborted' = TRUE
  /\ UNCHANGED <<cKey, cpc, cIdx, cContacted, cOutcomes, cOuterAborted, cLinked, cRes,
                 usageLogs>>
  /\ UNCHANGED <<normVars, waitVars, clientGone, probeVars, apiVars, ledgerVars, restVars>>

\* lines 1103-1106: the candidate answers 404
ChatFetch404 ==
  /\ cpc = "fetching" /\ ~cInnerAborted
  /\ cOutcomes' = Append(cOutcomes, Responded(404))
  /\ StartCandidate(cIdx + 1)
  /\ UNCHANGED <<cKey, cOuterAborted, usageLogs>>
  /\ UNCHANGED <<normVars, waitVars, clientGone, probeVars, apiVars, ledgerVars, restVars>>

\* line 1116: the entry the chat handler appends
ChatLogEntry == [path |-> "/v1/chat/completions", kind |-> "chat", image_count |-> 0]

\* lines 1108-1126: the candidate answers anything else
ChatFetchAnswers ==
  /\ cpc = "fetching" /\ ~cInnerAborted
  /\ \E ans \in ChatAnswers :
       /\ ans.status # 404
       /\ cOutcomes' = Append(cOutcomes, RespondedWith(ans))
       /\ cRes' = [sent |-> "stream", status |-> ans.status,
                   headers |-> ForwardedHeaders(ans.headers),
                   chunks |-> 0, ended |-> ~ans.body, aborted |-> FALSE]
       /\ cpc' = IF ans.body THEN "piping" ELSE "done"
       /\ cTimer' = (cTimer /\ ans.body)
  /\ usageLogs' = pushUsageLog(usageLogs, cKey, ChatLogEntry)
  /\ UNCHANGED <<cKey, cIdx, cContacted, cOuterAborted, cLinked, cInnerAborted>>
  /\ UNCHANGED <<normVars, waitVars, clientGone, probeVars, apiVars, ledgerVars, restVars>>

\* faulty variant: a rejected fetch ends the loop with the 502 answer
ChatFetchRejectsGivesUp ==
  /\ cpc = "fetching"
  /\ cOutcomes' = Append(cOutcomes, Rejected)
  /\ StartCandidate(Len(ChatCandidates) + 1)
  /\ UNCHANGED <<cKey, cOuterAborted, usageLogs>>
  /\ UNCHANGED <<normVars, waitVars, clientGone, probeVars, apiVars, ledgerVars, restVars>>

\* lines 1127-1130: the fetch rejects (network failure, or its signal was
\* aborted); the catch goes on to the next candidate
ChatFetchRejects ==
  /\ cpc = "fetching"
  /\ cOutcomes' = Append(cOutcomes, Rejected)
  /\ StartCandidate(cIdx + 1)
  /\ UNCHANGED <<cKey, cOuterAborted, usageLogs>>
  /\ UNCHANGED <<normVars, waitVars, clientGone, probeVars, apiVars, ledgerVars, restVars>>

\* line 1125: a chunk of the upstream body is piped to the caller
PipeChunk ==
  /\ cpc = "piping" /\ ~cInnerAborted
  /\ cRes.chunks < MaxChunks
  /\ cRes' = [cRes EXCEPT !.chunks = @ + 1]
  /\ UNCHANGED <<cKey, cpc, cIdx, cContacted, cOutcomes, cOuterAborted, cLinked,
                 cInnerAborted, cTimer, usageLogs>>
  /\ UNCHANGED <<normVars, waitVars, clientGone, probeVars, apiVars, ledgerVars, restVars>>

\* line 1125: the upstream body ends and the pipe ends the response
PipeEnd ==
  /\ cpc = "piping" /\ ~cInnerAborted
  /\ cRes' = [cRes EXCEPT !.ended = TRUE]
  /\ cpc' = "done"
  /\ UNCHANGED <<cKey, cIdx, cContacted, cOutcomes, cOuterAborted, cLinked, cInnerAborted,
                 cTimer, usageLogs>>
  /\ UNCHANGED <<normVars, waitVars, clientGone, probeVars, apiVars, ledgerVars, restVars>>

\* line 1125: the fetch signal is aborted while the body is piped; the
\* upstream stream fails
PipeAborted ==
  /\ cpc = "piping" /\ cInnerAborted
  /\ cRes' = [cRes EXCEPT !.aborted = TRUE]
  /\ cpc' = "done"
  /\ UNCHANGED <<cKey, cIdx, cContacted, cOutcomes, cOuterAborted, cLinked, cInnerAborted,
                 cTimer, usageLogs>>
  /\ UNCHANGED <<normVars, waitVars, clientGone, probeVars, apiVars, ledgerVars, restVars>>

NextChat ==
  \/ ChatEnter \/ ClientClose \/ TimerFires
  \/ ChatFetch404 \/ ChatFetchAnswers \/ ChatFetchRejects
  \/ PipeChunk \/ PipeEnd \/ PipeAborted

SpecChat == InitChat /\ [][NextChat]_vars

\* C8: once the caller has disconnected, the upstream request in flight is
\* aborted and no further upstream candidate is contacted.
C8_DisconnectStopsUpstream ==
  /\ []((clientGone /\ cpc \in {"fetching", "piping"}) => cInnerAborted)
  /\ [][clientGone => cContacted' = cContacted]_vars

\* C11: the chat handler contacts its upstream candidates in order and
\* answers the caller from the first one whose response is not a 404; once
\* it has answered, no later candidate is contacted; it answers 502 only
\* after every candidate has been fetched and none responded with a status
\* other than 404.
AnsweredFromUpstream == cRes.sent = "stream"

IsNon404(o) == o.responded /\ o.status # 404

C11_FirstNon404Answers ==
  /\ [](/\ cContacted = SubSeq(ChatCandidates, 1, Len(cContacted))
        /\ AnsweredFromUpstream =>
             /\ Len(cOutcomes) = Len(cContacted)
             /\ IsNon404(cOutcomes[Len(cOutcomes)])
             /\ cRes.status = cOutcomes[Len(cOutcomes)].status
             /\ \A i \in 1..(Len(cOutcomes) - 1) : ~IsNon404(cOutcomes[i])
        /\ (cRes.sent = "json" /\ cRes.status = 502) =>
             /\ cContacted = ChatCandidates
             /\ Len(cOutcomes) = Len(ChatCandidates)
             /\ \A i \in 1..Len(cOutcomes) : ~IsNon404(cOutcomes[i])
        /\ \A i \in 1..Len(cOutcomes) :
             IsNon404(cOutcomes[i]) => AnsweredFromUpstream /\ i = Len(cOutcomes))
  /\ [][AnsweredFromUpstream => cContacted' = cContacted]_vars

\* the first candidate answered 404 and the second one answered the caller
C11_Witness ==
  /\ AnsweredFromUpstream /\ cpc = "done"
  /\ Len(cContacted) = 2
  /\ cOutcomes[1] = Responded(404)
  /\ cRes.status = 500

\* every candidate was tried, one answered 404 and one was rejected
C11_Witness502 ==
  /\ cRes.sent = "json" /\ cRes.status = 502
  /\ cOutcomes = <<Responded(404), Rejected>>

-----------------------------------------------------------------------------
(* SpecLedger, SpecLedgerConc: requests appending to the usage ledger      *)

\* appends beyond the cap made for one credential
MaxOverflow == 2

\* requests admitted for the other credential
MaxOtherRequests == 2

\* requests admitted while others are in flight
MaxConcRequests == 3

\* the credentials that reach pushUsageLog (every handler returns 401
\* before it for an empty one)
LedgerKeys == ApiKeys \ {""}

\* the entry a handler passes to pushUsageLog, written as the number its
\* request has among the requests of the same credential
LogEntryOf(r) == r.req

\* the entries of requests 1..n of one credential, newest first
EntriesDownFrom(n) == [i \in 1..n |-> n + 1 - i]

\* a handler is entered for a request; it awaits its upstream before it
\* appends (lines 710-718, 738-741, 834-835, 885-886, 1050-1057, 1092-1116)
LedgerArrive(limit, total) ==
  /\ Cardinality(lInFlight) < limit
  /\ \E key \in LedgerKeys :
       /\ lCount[key] < total[key]
       /\ lCount' = [lCount EXCEPT ![key] = @ + 1]
       /\ lInFlight' = lInFlight \cup {[key |-> key, req |-> lCount[key] + 1]}
  /\ UNCHANGED usageLogs
  /\ UNCHANGED <<normVars, waitVars, clientGone, probeVars, chatCtl, apiVars, restVars>>

\* the awaited upstream call of one in-flight request resolves and its
\* handler runs pushUsageLog; the function has no await, so it runs to
\* its end before any other handler continues
LedgerAppend ==
  /\ \E r \in lInFlight :
       /\ usageLogs' = pushUsageLog(usageLogs, r.key, LogEntryOf(r))
       /\ lInFlight' = lInFlight \ {r}
  /\ UNCHANGED lCount
  /\ UNCHANGED <<normVars, waitVars, clientGone, probeVars, chatCtl, apiVars, restVars>>

\* one request at a time, from the empty ledger
SeqTotal == [key \in LedgerKeys |->
               IF key = "key-a" THEN UsageLogCap + MaxOverflow ELSE MaxOtherRequests]

InitLedger ==
  /\ usageLogs = NoLogs
  /\ lCount = [key \in LedgerKeys |-> 0]
  /\ lInFlight = {}
  /\ NormIdle /\ WaitIdle /\ ProbeIdle /\ ChatCtlIdle /\ ApiIdle /\ RestIdle

LedgerArriveAlone == LedgerArrive(1, SeqTotal)

NextLedger == LedgerArriveAlone \/ LedgerAppend

SpecLedger == InitLedger /\ [][NextLedger]_vars

\* entries appended so far for a credential
Appended(key) == lCount[key] - Cardinality({r \in lInFlight : r.key = key})

Min(a, b) == IF a < b THEN a ELSE b

\* C14: after any sequence of appends the ledger holds, for each credential
\* hash, the most recent entries of that credential and at most 2000 of
\* them, newest first: once more than 2000 have been appended the list is
\* exactly 2000 long and the oldest ones are gone; an append for one hash
\* leaves the lists of the other hashes as they were.
C14_LedgerCappedNewestFirst ==
  /\ [](\A key \in LedgerKeys :
          LET list == usageLogs[sha256Short(key)]
          IN  /\ Len(list) <= UsageLogCap
              /\ Len(list) = Min(Appended(key), UsageLogCap)
              /\ \A i \in 1..Len(list) : list[i] = Appended(key) + 1 - i)
  /\ [][\A r \in lInFlight : r \notin lInFlight' =>
           \A key \in LedgerKeys \ {r.key} :
             usageLogs'[sha256Short(key)] = usageLogs[sha256Short(key)]]_vars

\* entry 2001 has been appended for one hash: 2000 entries are left, the
\* newest at the head and the first one evicted, next to a list of
\* another hash
C14_Witness ==
  LET list == usageLogs[sha256Short("key-a")]
  IN  /\ Appended("key-a") = UsageLogCap + 1
      /\ Len(list) = UsageLogCap
      /\ list[1] = UsageLogCap + 1
      /\ list[UsageLogCap] = 2
      /\ Len(usageLogs[sha256Short("key-b")]) = 1

-----------------------------------------------------------------------------
(* SpecLedgerConc: several requests in flight at once                      *)

\* the ledger the concurrent requests start from: one credential is one
\* entry short of the cap (the state SpecLedger reaches after that many
\* appends), the other has no entry yet
NearlyFull == UsageLogCap - 1

ConcTotal == [key \in LedgerKeys |->
                IF key = "key-a" THEN NearlyFull + MaxConcRequests ELSE MaxConcRequests]

InitLedgerConc ==
  /\ usageLogs = [NoLogs EXCEPT ![sha256Short("key-a")] = EntriesDownFrom(NearlyFull)]
  /\ lCount = [key \in LedgerKeys |-> IF key = "key-a" THEN NearlyFull ELSE 0]
  /\ lInFlight = {}
  /\ NormIdle /\ WaitIdle /\ ProbeIdle /\ ChatCtlIdle /\ ApiIdle /\ RestIdle

LedgerArriveConcurrent == LedgerArrive(MaxConcRequests, ConcTotal)

NextLedgerConc == LedgerArriveConcurrent \/ LedgerAppend

SpecLedgerConc == InitLedgerConc /\ [][NextLedgerConc]_vars

\* the ledger of SpecLedgerConc's first state is one SpecLedger reaches
NearlyFullReached ==
  /\ usageLogs[sha256Short("key-a")] = EntriesDownFrom(NearlyFull)
  /\ usageLogs[sha256Short("key-b")] = <<>>
  /\ lInFlight = {}

Elems(q) == { q[i] : i \in 1..Len(q) }

\* C16: whatever the interleaving of in-flight requests, every append puts
\* its entry at the head of its hash's list and keeps the entries already
\* there in their order (dropping only those beyond the cap), leaves every
\* other list alone, and so no entry is lost or appears twice and no list
\* outgrows 2000.
C16_ConcurrentAppendsSafe ==
  /\ [](\A key \in LedgerKeys :
          LET list == usageLogs[sha256Short(key)]
          IN  /\ Len(list) = Min(Appended(key), UsageLogCap)
              /\ Cardinality(Elems(list)) = Len(list)
              /\ \A r \in lInFlight : r.key = key => r.req \notin Elems(list)
              /\ Appended(key) <= UsageLogCap =>
                   Elems(list) = (1..lCount[key]) \
                                   { r.req : r \in {x \in lInFlight : x.key = key} })
  /\ [][\A r \in lInFlight : r \notin lInFlight' =>
           LET h == sha256Short(r.key)
               grown == <<LogEntryOf(r)>> \o usageLogs[h]
           IN  /\ usageLogs'[h] = SubSeq(grown, 1, Min(Len(grown), UsageLogCap))
               /\ \A g \in KeyHashes \ {h} : usageLogs'[g] = usageLogs[g]]_vars

\* three requests were in flight together, two of one credential and one of
\* another; the later-admitted one appended first, and the cap was reached
C16_Witness ==
  LET list == usageLogs[sha256Short("key-a")]
  IN  /\ lInFlight = {}
      /\ Len(list) = UsageLogCap
      /\ list[1] = NearlyFull + 1 /\ list[2] = NearlyFull + 2
      /\ list[UsageLogCap] = 2
      /\ usageLogs[sha256Short("key-b")] = <<1>>

-----------------------------------------------------------------------------
(* SpecApi: one request to a job, lookup or multimodal surface             *)

Surfaces ==
  {"videoCreate", "videoPoll", "videoContent", "klingText", "klingTextPoll",
   "klingImage", "klingImagePoll", "generate", "tokenInfo", "logSelf"}

\* inline images of one multimodal request
MaxImages == 2

\* result URLs one image job returns
MaxResultUrls == 5

\* s.toLowerCase().includes(sub), over the names used below
Includes(s, sub) ==
  <<s, sub>> \in
    { <<"veo3", "veo">>, <<"Veo3-Fast", "veo">>, <<"Veo3-Fast", "fast">>,
      <<"sora-2", "sora">>, <<"sora-2-pro", "sora">>, <<"sora-2-pro", "pro">>,
      <<"kling-v1", "kling">>,
      <<"veo_task_1", "veo">>,
      <<"gemini-2.5-flash-image", "image">> }

VideoModels == {"veo3", "Veo3-Fast", "sora-2", "sora-2-pro", "kling-v1", ""}

isVeoModel(model) == Includes(model, "veo")

isSoraModel(model) == Includes(model, "sora")

\* line 707
VeoKieModel(model) == IF Includes(model, "fast") THEN "veo3_fast" ELSE "veo3"

mapSoraMarketModel(model, isImageToVideo) ==
  IF Includes(model, "pro") \/ Includes(model, "all")
    THEN IF isImageToVideo THEN "sora-2-pro/image-to-video" ELSE "sora-2-pro/text-to-video"
    ELSE IF isImageToVideo THEN "sora-2/image-to-video" ELSE "sora-2/text-to-video"

\* taskId.toLowerCase().startsWith('veo'), lines 760 and 803
StartsWithVeo(taskId) == Includes(taskId, "veo")

TaskIds == {"veo_task_1", "task_1"}

\* A JS string is written as the sequence of its lines, '' as <<>>.
\* texts.join('\n\n'), line 985
JoinBlank(texts) ==
  IF texts = <<>> THEN <<>>
  ELSE [i \in 1..(2 * Len(texts) - 1) |-> IF i % 2 = 1 THEN texts[(i + 1) \div 2] ELSE ""]

\* the text fragments and the number of inline images of a request body
extractGeminiTextAndInlineImages(body) ==
  [prompt |-> JoinBlank(body.texts), images |-> body.images]

PolishHead == "(instruction: rewrite the prompt below with more detail)"
PolishTail == "(checklist: subject, scene, light, camera, style, format)"

simplePromptPolish(text) ==
  IF text = <<>> THEN <<>>
  ELSE <<PolishHead, "">> \o text \o <<"", PolishTail>>

\* faulty variant: a request naming no modalities is taken to want an image
wantsImageWhenUnspecified(modalities, modelId) ==
  \/ modalities.t # "array"
  \/ \E i \in 1..Len(modalities.a) : modalities.a[i] = "IMAGE"
  \/ Includes(modelId, "image")

\* lines 1022-1025
wantsImage(modalities, modelId) ==
  \/ modalities.t = "array" /\ \E i \in 1..Len(modalities.a) : modalities.a[i] = "IMAGE"
  \/ Includes(modelId, "image")

\* the most images one answer carries (line 1040)
MaxEmbedded == 4

\* Number(x) of a number or of a string that is not a numeral
NaN == [t |-> "nan", n |-> 0, s |-> "", a |-> <<>>]
JsNumber(x) == IF x.t = "number" THEN x ELSE NaN

\* faulty variant: the requested count is not capped
CandidateNUncapped(candidateCount) ==
  LET c == JsNumber(Or(candidateCount, Num(1)))
  IN  IF c = NaN THEN NaN ELSE IF c.n < 1 THEN Num(1) ELSE c

\* line 1040: Math.min(4, Math.max(1, Number(candidateCount || 1))), a
\* number or NaN
CandidateN(candidateCount) ==
  LET c == JsNumber(Or(candidateCount, Num(1)))
  IN  IF c = NaN THEN NaN
      ELSE IF c.n < 1 THEN Num(1) ELSE IF c.n > MaxEmbedded THEN Num(MaxEmbedded) ELSE c

\* s.trim(), over the values used below
Trim(s) == IF s = " 9:16 " THEN "9:16" ELSE s

AspectRatios == {"16:9", "9:16", "1:1", "4:3", "3:4", "Auto"}

\* faulty variant: a value that is not enumerated is passed on as it came
mapAspectRatioPassThrough(sizeOrRatio) ==
  LET v == Trim(sizeOrRatio)
  IN  IF v = "" THEN "16:9" ELSE v

\* lines 212-220
mapAspectRatio(sizeOrRatio) ==
  LET v == Trim(sizeOrRatio)
  IN  IF v = "" THEN "16:9"
      ELSE IF v \in {"16:9", "9:16", "1:1", "4:3", "3:4"} THEN v
      ELSE IF ToLowerCase(v) = "auto" THEN "Auto"
      ELSE "16:9"

\* the size / aspect_ratio values a caller sends, "" when it sends none
RatioInputs ==
  {"", "16:9", "9:16", "1:1", "4:3", "3:4", "Auto", "auto", "AUTO", " 9:16 ",
   "1280x720", "21:9"}

NoInput ==
  [model |-> "", hasFile |-> FALSE, taskId |-> "", image |-> FALSE, texts |-> <<>>,
   images |-> 0, modalities |-> Undef, candidateCount |-> Undef, ratio |-> ""]

\* the parameters a request to each surface can carry
InputsOf(surface) ==
  CASE surface = "videoCreate" ->
         { [NoInput EXCEPT !.model = m, !.hasFile = f, !.ratio = a] :
             m \in VideoModels, f \in BOOLEAN, a \in RatioInputs }
    [] surface = "klingText" ->
         { [NoInput EXCEPT !.ratio = a] : a \in RatioInputs }
    [] surface \in {"videoPoll", "videoContent", "klingTextPoll", "klingImagePoll"} ->
         { [NoInput EXCEPT !.taskId = t] : t \in TaskIds }
    [] surface = "klingImage" ->
         { [NoInput EXCEPT !.image = b, !.ratio = a] : b \in BOOLEAN, a \in {"", "9:16"} }
    [] surface = "generate" ->
         { [NoInput EXCEPT !.model = m, !.texts = t, !.images = i, !.modalities = r,
                           !.candidateCount = c] :
             m \in {"gemini-2.5-flash", "gemini-2.5-flash-image"},
             t \in {<<>>, <<"a cat">>, <<"a cat", "at night">>},
             i \in 0..MaxImages,
             r \in {Undef, Arr(<<"TEXT">>), Arr(<<"TEXT", "IMAGE">>)},
             c \in {Undef, Num(2), Num(4), Num(9), Num(0 - 3), Str("many")} }
    [] OTHER -> {NoInput}

\* an upstream operation a handler starts: which helper, the model it
\* names and the hosted URLs it passes; a job submission also carries an
\* aspect ratio ("" in every other call)
Call(op, model, urls) == [op |-> op, model |-> model, urls |-> urls, aspect |-> ""]

WithAspect(call, ratio) == [call EXCEPT !.aspect = ratio]

\* the hosted URL kieUploadBuffer returns for the k-th ingested file
FileUrl(k) == [hosted |-> k]

\* the usage entry of a handler (lines 718, 741, 835, 886, 1031, 1057)
LogEntry(path, kind, imageCount) == [path |-> path, kind |-> kind, image_count |-> imageCount]

\* the handler awaits an upstream operation
Issue(pc, call) ==
  /\ rpc' = pc
  /\ rCalls' = Append(rCalls, call)
  /\ UNCHANGED rRes

\* the handler answers and returns
Reply(status, body) ==
  /\ rpc' = "done"
  /\ rRes' = [sent |-> "json", status |-> status, body |-> body]
  /\ UNCHANGED rCalls

\* the job submission of a handler once its files are ingested
\* (lines 738-740, 881-885, 1050-1055)
SubmitCall(surface, in, urls) ==
  CASE surface = "videoCreate" ->
         WithAspect(Call("createTask", mapSoraMarketModel(in.model, in.hasFile), urls),
                    mapAspectRatio(in.ratio))
    [] surface = "klingImage" ->
         WithAspect(Call("createTask", "kling-2.6/image-to-video", urls), "16:9")
    [] surface = "klingText" ->
         WithAspect(Call("createTask", "kling-2.6/text-to-video", urls),
                    mapAspectRatio(in.ratio))
    [] OTHER -> Call("imageGenerate", "", urls)

\* faulty variant: the record of a task id starting with "veo" is fetched twice
RecordCallsTwice(taskId) ==
  IF StartsWithVeo(taskId)
    THEN <<Call("veoRecordInfo", "", <<>>), Call("veoRecordInfo", "", <<>>)>>
    ELSE <<Call("recordInfo", "", <<>>)>>

\* lines 760-761, 775: the record fetch of GET /v1/videos/:taskId
RecordCalls(taskId) ==
  IF StartsWithVeo(taskId)
    THEN <<Call("veoRecordInfo", "", <<>>)>>
    ELSE <<Call("recordInfo", "", <<>>)>>

InitApi ==
  /\ rSurface \in Surfaces
  /\ rKey \in ApiKeys
  /\ rIn \in InputsOf(rSurface)
  /\ rpc = "enter" /\ rCalls = <<>> /\ rUrls = <<>> /\ rGot = <<>>
  /\ rRes = [sent |-> "nothing"]
  /\ rJob = NoJob
  /\ usageLogs = NoLogs
  /\ NormIdle /\ WaitIdle /\ ProbeIdle /\ ChatCtlIdle /\ LedgerIdle /\ RestIdle

\* the key under which each surface's JSON error answers hold their text:
\* "message" on the Kling routes (lines 822, 838, 844, 861, 867, 877, 889,
\* 895, 912) and on the ledger and credit routes (lines 637, 671, 677),
\* "error" elsewhere (lines 694, 745, 747, 754, 789, 1016, 1068)
ErrorBody(surface, text) ==
  IF surface = "tokenInfo" THEN [success |-> FALSE, message |-> text]
  ELSE IF surface \in {"klingText", "klingImage", "klingTextPoll", "klingImagePoll",
                       "logSelf"}
    THEN [message |-> text]
  ELSE [error |-> text]

\* the text of an error answer
ErrorText(body) == IF "message" \in DOMAIN body THEN body.message ELSE body.error

\* the credential check every handler starts with (lines 693-694, 753-754,
\* 795-796, 821-822, 843-844, 866-867, 894-895, 1015-1016, 636-637, 676-677)
ApiUnauthenticated ==
  /\ rpc = "enter" /\ rKey = ""
  /\ Reply(401, ErrorBody(rSurface, "Missing APIKey"))
  /\ UNCHANGED <<rSurface, rKey, rIn, rUrls, rGot, usageLogs, rJob>>
  /\ UNCHANGED <<normVars, waitVars, clientGone, probeVars, chatCtl, ledgerVars, restVars>>

\* POST /v1/videos, lines 696-746, up to its first await
VideoCreateEnter ==
  /\ rpc = "enter" /\ rKey # "" /\ rSurface = "videoCreate"
  /\ IF isVeoModel(rIn.model)
       THEN Issue("create", WithAspect(Call("veoGenerate", VeoKieModel(rIn.model), <<>>),
                                       mapAspectRatio(rIn.ratio)))
     ELSE IF isSoraModel(rIn.model)
       THEN IF rIn.hasFile
              THEN Issue("upload", Call("upload", "", <<>>))
              ELSE Issue("create", SubmitCall(rSurface, rIn, <<>>))
     ELSE Reply(400, ErrorBody(rSurface, "Unsupported model"))
  /\ UNCHANGED <<rSurface, rKey, rIn, rUrls, rGot, usageLogs, rJob>>
  /\ UNCHANGED <<normVars, waitVars, clientGone, probeVars, chatCtl, ledgerVars, restVars>>

\* faulty variant: the lookups fetch the record without a credential check
PollEnterNoKeyCheck ==
  /\ rpc = "enter"
  /\ rSurface \in {"videoPoll", "videoContent", "klingTextPoll", "klingImagePoll"}
  /\ rpc' = "record"
  /\ rCalls' = rCalls \o <<Call("recordInfo", "", <<>>)>>
  /\ UNCHANGED <<rSurface, rKey, rIn, rUrls, rGot, rRes, usageLogs, rJob>>
  /\ UNCHANGED <<normVars, waitVars, clientGone, probeVars, chatCtl, ledgerVars, restVars>>

\* the status and content lookups, up to their record fetch
\* (lines 756-775, 797-808, 845-848, 896-899)
PollEnter ==
  /\ rpc = "enter" /\ rKey # ""
  /\ rSurface \in {"videoPoll", "videoContent", "klingTextPoll", "klingImagePoll"}
  /\ rpc' = "record"
  /\ rCalls' = rCalls \o (IF rSurface \in {"videoPoll", "videoContent"}
                              THEN RecordCalls(rIn.taskId)
                              ELSE <<Call("recordInfo", "", <<>>)>>)
  /\ UNCHANGED <<rSurface, rKey, rIn, rUrls, rGot, rRes, usageLogs, rJob>>
  /\ UNCHANGED <<normVars, waitVars, clientGone, probeVars, chatCtl, ledgerVars, restVars>>

\* POST /kling/v1/videos/text2video and .../image2video, up to their first
\* await (lines 824-834, 869-879)
KlingCreateEnter ==
  /\ rpc = "enter" /\ rKey # "" /\ rSurface \in {"klingText", "klingImage"}
  /\ IF rSurface = "klingText"
       THEN Issue("create", SubmitCall(rSurface, rIn, <<>>))
     ELSE IF ~rIn.image
       THEN Reply(400, ErrorBody(rSurface, "Missing image (base64)"))
     ELSE Issue("upload", Call("upload", "", <<>>))
  /\ UNCHANGED <<rSurface, rKey, rIn, rUrls, rGot, usageLogs, rJob>>
  /\ UNCHANGED <<normVars, waitVars, clientGone, probeVars, chatCtl, ledgerVars, restVars>>

\* the generateContent handler, lines 1018-1047, up to its first await; the
\* text-only branch (lines 1029-1037) answers without one
GenerateContentEnter ==
  /\ rpc = "enter" /\ rKey # "" /\ rSurface = "generate"
  /\ LET got == extractGeminiTextAndInlineImages(rIn)
         polished == simplePromptPolish(got.prompt)
     IN  IF ~wantsImage(rIn.modalities, rIn.model) /\ got.images = 0
           THEN /\ usageLogs' = pushUsageLog(usageLogs, rKey,
                                   LogEntry("/v1beta/models/:generateContent", "text", 0))
                /\ Reply(200, [candidates |->
                                 <<[parts |-> <<[text |-> IF polished # <<>> THEN polished
                                                          ELSE got.prompt]>>]>>])
         ELSE /\ UNCHANGED usageLogs
              /\ IF got.images > 0
                   THEN Issue("upload", Call("upload", "", <<>>))
                   ELSE Issue("create", SubmitCall(rSurface, rIn, <<>>))
  /\ UNCHANGED <<rSurface, rKey, rIn, rUrls, rGot, rJob>>
  /\ UNCHANGED <<normVars, waitVars, clientGone, probeVars, chatCtl, ledgerVars, restVars>>

\* lines 639-643
CreditCandidates == <<"/api/v1/chat/credit", "/api/v1/user/credits", "/api/v1/user/credit">>

\* GET /api/proxy/token/info, lines 635-650, up to its first fetch
TokenInfoEnter ==
  /\ rpc = "enter" /\ rKey # "" /\ rSurface = "tokenInfo"
  /\ Issue("credit", Call("credit", CreditCandidates[1], <<>>))
  /\ UNCHANGED <<rSurface, rKey, rIn, rUrls, rGot, usageLogs, rJob>>
  /\ UNCHANGED <<normVars, waitVars, clientGone, probeVars, chatCtl, ledgerVars, restVars>>

\* lines 646-668: one credit candidate answers with a success status, or
\* it answers with another status or its fetch throws and the next is tried
CreditAnswers ==
  /\ rpc = "credit"
  /\ \E ok \in BOOLEAN :
       IF ok THEN Reply(200, [success |-> TRUE])
       ELSE IF Len(rCalls) < Len(CreditCandidates)
         THEN Issue("credit", Call("credit", CreditCandidates[Len(rCalls) + 1], <<>>))
       ELSE Reply(502, [success |-> FALSE])
  /\ UNCHANGED <<rSurface, rKey, rIn, rUrls, rGot, usageLogs, rJob>>
  /\ UNCHANGED <<normVars, waitVars, clientGone, probeVars, chatCtl, ledgerVars, restVars>>

\* GET /api/proxy/log/self, lines 675-685
LogSelf ==
  /\ rpc = "enter" /\ rKey # "" /\ rSurface = "logSelf"
  /\ Reply(200, [data |-> usageLogs[sha256Short(rKey)],
                 total |-> Len(usageLogs[sha256Short(rKey)])])
  /\ UNCHANGED <<rSurface, rKey, rIn, rUrls, rGot, usageLogs, rJob>>
  /\ UNCHANGED <<normVars, waitVars, clientGone, probeVars, chatCtl, ledgerVars, restVars>>

\* kieUploadBuffer resolves with the hosted URL (lines 733-734, 877, 1046-1047);
\* the handler ingests its next image or submits the job
UploadReturns ==
  /\ rpc = "upload"
  /\ LET urls == Append(rUrls, FileUrl(Len(rUrls) + 1))
     IN  /\ rUrls' = urls
         /\ IF rSurface = "generate" /\ Len(urls) < rIn.images
              THEN Issue("upload", Call("upload", "", <<>>))
              ELSE Issue("create", SubmitCall(rSurface, rIn, urls))
  /\ UNCHANGED <<rSurface, rKey, rIn, rGot, usageLogs, rJob>>
  /\ UNCHANGED <<normVars, waitVars, clientGone, probeVars, chatCtl, ledgerVars, restVars>>

\* kieUploadBuffer throws (line 209); the handler's catch answers 500
UploadThrows ==
  /\ rpc = "upload"
  /\ Reply(500, ErrorBody(rSurface, "KIE upload failed"))
  /\ UNCHANGED <<rSurface, rKey, rIn, rUrls, rGot, usageLogs, rJob>>
  /\ UNCHANGED <<normVars, waitVars, clientGone, probeVars, chatCtl, ledgerVars, restVars>>

\* the usage entry each submitting handler appends (lines 718, 741, 835, 886, 1057)
SubmitLogEntry(surface, in, urls) ==
  CASE surface = "videoCreate" ->
         LogEntry("/v1/videos", "create",
                  IF ~isVeoModel(in.model) /\ in.hasFile THEN 1 ELSE 0)
    [] surface = "klingText" -> LogEntry("/kling/v1/videos/text2video", "create", 0)
    [] surface = "klingImage" -> LogEntry("/kling/v1/videos/image2video", "create", 1)
    [] OTHER -> LogEntry("/v1beta/models/:generateContent", "image-create", Len(urls))

\* the values an upstream answer can hold under a key where a task id is
\* looked for
IdValues == {Undef, Str(""), Str("task_1")}

\* the answers of the upstream's job-submission endpoints: the HTTP status
\* is a success or not, and the body holds these values under data.taskId,
\* data.task_id, taskId and task_id; the upstream mints the ids
CreateAnswers ==
  [threw : {FALSE}, ok : BOOLEAN,
   dataTaskId : IdValues \cup {Str("veo_task_1")}, dataTask_id : IdValues,
   taskId : IdValues, task_id : IdValues]

\* the fetch of a submission is rejected (network failure, timeout)
FetchThrew ==
  [threw |-> TRUE, ok |-> FALSE, dataTaskId |-> Undef, dataTask_id |-> Undef,
   taskId |-> Undef, task_id |-> Undef]

\* the image submission probes its candidates (lines 317-353): one of them
\* answers with a task id, or none does
ImageAnswers ==
  { [FetchThrew EXCEPT !.threw = FALSE, !.ok = TRUE, !.dataTaskId = Str("image_task_1")],
    FetchThrew }

\* how the submission a handler awaits can be answered
SubmitAnswers(surface) ==
  IF surface = "generate" THEN ImageAnswers ELSE CreateAnswers \cup {FetchThrew}

\* json?.data?.taskId || json?.data?.task_id || json?.taskId || json?.task_id
TaskIdOf(ans) == Or(Or(Or(ans.dataTaskId, ans.dataTask_id), ans.taskId), ans.task_id)

Returns(taskId) == [threw |-> FALSE, error |-> "", taskId |-> taskId]
Throws(error) == [threw |-> TRUE, error |-> error, taskId |-> Undef]

\* faulty variant: an answer without a task id yields whatever the keys hold
kieCreateTaskDefaultsId(ans) ==
  IF ans.threw THEN Throws("fetch failed")
  ELSE IF ~ans.ok THEN Throws("KIE createTask failed (status)")
  ELSE Returns(TaskIdOf(ans))

\* lines 246-265
kieCreateTask(ans) ==
  IF ans.threw THEN Throws("fetch failed")
  ELSE IF ~ans.ok THEN Throws("KIE createTask failed (status)")
  ELSE IF ~Truthy(TaskIdOf(ans)) THEN Throws("KIE createTask: missing taskId")
  ELSE Returns(TaskIdOf(ans))

\* lines 282-299
kieVeoGenerate(ans) ==
  IF ans.threw THEN Throws("fetch failed")
  ELSE IF ~ans.ok THEN Throws("KIE Veo generate failed (status)")
  ELSE IF ~Truthy(TaskIdOf(ans)) THEN Throws("KIE Veo: missing taskId")
  ELSE Returns(TaskIdOf(ans))

\* the result of the helper a handler submits its job with
SubmitResult(surface, in, ans) ==
  CASE surface = "generate" ->
         IF ans.threw THEN Throws("KIE image generate failed") ELSE Returns(TaskIdOf(ans))
    [] surface = "videoCreate" /\ isVeoModel(in.model) -> kieVeoGenerate(ans)
    [] OTHER -> kieCreateTask(ans)

\* the upstream family a create surface submits to
FamilyOf(surface, in) ==
  IF surface = "videoCreate" /\ isVeoModel(in.model) THEN "veo" ELSE "market"

\* the body a create surface answers with (lines 719, 742, 836, 887)
CreatedBody(surface, in, taskId) ==
  CASE surface = "videoCreate" /\ isVeoModel(in.model) ->
         [id |-> taskId, status |-> "processing"]
    [] surface = "videoCreate" ->
         [task_id |-> taskId, id |-> taskId, status |-> "processing"]
    [] OTHER -> [data |-> [task_id |-> taskId]]

\* the handler answers with the id of the job it created, or goes on to
\* wait for the image job
AnswerCreated(taskId) ==
  IF rSurface = "generate"
    THEN /\ Issue("wait", Call("wait", "", <<>>))
         /\ UNCHANGED rJob
    ELSE /\ Reply(200, CreatedBody(rSurface, rIn, taskId))
         /\ rJob' = [family |-> FamilyOf(rSurface, rIn), id |-> JsString(taskId)]

\* faulty variant: the handler answers without appending a usage entry
SubmitReturnsNoLog ==
  /\ rpc = "create"
  /\ \E ans \in SubmitAnswers(rSurface) :
       LET res == SubmitResult(rSurface, rIn, ans)
       IN  ~res.threw /\ rGot' = ans /\ AnswerCreated(res.taskId)
  /\ UNCHANGED <<rSurface, rKey, rIn, rUrls, usageLogs>>
  /\ UNCHANGED <<normVars, waitVars, clientGone, probeVars, chatCtl, ledgerVars, restVars>>

\* kieVeoGenerate, kieCreateTask or kieImageGenerate resolves with a task
\* id; the handler appends its usage entry and answers, or goes on to wait
\* for the image job (lines 710-719, 740-742, 834-836, 885-887, 1050-1059)
SubmitReturns ==
  /\ rpc = "create"
  /\ usageLogs' = pushUsageLog(usageLogs, rKey, SubmitLogEntry(rSurface, rIn, rUrls))
  /\ \E ans \in SubmitAnswers(rSurface) :
       LET res == SubmitResult(rSurface, rIn, ans)
       IN  ~res.threw /\ rGot' = ans /\ AnswerCreated(res.taskId)
  /\ UNCHANGED <<rSurface, rKey, rIn, rUrls>>
  /\ UNCHANGED <<normVars, waitVars, clientGone, probeVars, chatCtl, ledgerVars, restVars>>

\* faulty variant: the usage entry is appended before the submission is
\* awaited, so a submission that throws leaves it in the ledger
SubmitThrowsLogged ==
  /\ rpc = "create"
  /\ usageLogs' = pushUsageLog(usageLogs, rKey, SubmitLogEntry(rSurface, rIn, rUrls))
  /\ \E ans \in SubmitAnswers(rSurface) :
       LET res == SubmitResult(rSurface, rIn, ans)
       IN  res.threw /\ rGot' = ans /\ Reply(500, ErrorBody(rSurface, res.error))
  /\ UNCHANGED <<rSurface, rKey, rIn, rUrls, rJob>>
  /\ UNCHANGED <<normVars, waitVars, clientGone, probeVars, chatCtl, ledgerVars, restVars>>

\* the submission throws: its fetch is rejected, the upstream answers with
\* a non-success status, or the answer holds no task id; the catch answers
\* 500 with the message (lines 744-746, 837-839, 888-890, 1067-1069)
SubmitThrows ==
  /\ rpc = "create"
  /\ \E ans \in SubmitAnswers(rSurface) :
       LET res == SubmitResult(rSurface, rIn, ans)
       IN  res.threw /\ rGot' = ans /\ Reply(500, ErrorBody(rSurface, res.error))
  /\ UNCHANGED <<rSurface, rKey, rIn, rUrls, usageLogs, rJob>>
  /\ UNCHANGED <<normVars, waitVars, clientGone, probeVars, chatCtl, ledgerVars, restVars>>

\* the surface on which the caller follows a job of each create surface
FollowUps(surface) ==
  CASE surface = "videoCreate" -> {"videoPoll", "videoContent"}
    [] surface = "klingText" -> {"klingTextPoll"}
    [] surface = "klingImage" -> {"klingImagePoll"}
    [] OTHER -> {}

\* the caller, answered with the id of the job it created, sends its next
\* request: a lookup of that id with the same credential
FollowUp ==
  /\ rpc = "done" /\ rRes.status = 200 /\ rJob # NoJob
  /\ \E next \in FollowUps(rSurface) :
       /\ rSurface' = next
       /\ rIn' = [NoInput EXCEPT !.taskId = rJob.id]
  /\ rpc' = "enter" /\ rCalls' = <<>> /\ rUrls' = <<>> /\ rGot' = <<>>
  /\ rRes' = [sent |-> "nothing"]
  /\ UNCHANGED <<rKey, rJob, usageLogs>>
  /\ UNCHANGED <<normVars, waitVars, clientGone, probeVars, chatCtl, ledgerVars, restVars>>

\* the answer of a poll handler built from the fetched record
StatusAnswer(surface, taskId, json) ==
  IF surface = "videoPoll"
    THEN IF StartsWithVeo(taskId) THEN VeoStatusResponse(json) ELSE MarketStatusResponse(json)
    ELSE KlingStatusResponse(json)

\* lines 802-808: the URL the content endpoint redirects to
ContentUrl(taskId, json) ==
  IF StartsWithVeo(taskId)
    THEN Or(FirstOf(Or(json.data.response.resultUrls, Arr(<<>>))), Null)
    ELSE extractFirstResultUrl(json)

\* the record fetch resolves; the handler answers from the record
\* (lines 762-788, 809-811, 849-858, 900-909)
RecordReturns ==
  /\ rpc = "record"
  /\ \E json \in StubRecords :
       /\ rGot' = json
       /\ IF rSurface = "videoContent"
            THEN IF Truthy(ContentUrl(rIn.taskId, json))
                   THEN Reply(302, [location |-> ContentUrl(rIn.taskId, json)])
                   ELSE Reply(404, [error |-> "No content"])
            ELSE Reply(200, StatusAnswer(rSurface, rIn.taskId, json))
  /\ UNCHANGED <<rSurface, rKey, rIn, rUrls, usageLogs, rJob>>
  /\ UNCHANGED <<normVars, waitVars, clientGone, probeVars, chatCtl, ledgerVars, restVars>>

\* the record fetch throws or answers with a non-success status
\* (lines 276-278, 310); the catch answers 500
RecordThrows ==
  /\ rpc = "record"
  /\ Reply(500, ErrorBody(rSurface, "KIE recordInfo failed"))
  /\ UNCHANGED <<rSurface, rKey, rIn, rUrls, rGot, usageLogs, rJob>>
  /\ UNCHANGED <<normVars, waitVars, clientGone, probeVars, chatCtl, ledgerVars, restVars>>

\* line 1061: urls.slice(0, n).length; slice(0, NaN) is empty
ToFetch(in, got) ==
  LET n == CandidateN(in.candidateCount)
  IN  IF n = NaN THEN 0 ELSE Min(n.n, got.urls)

\* the parts of the multimodal answer, line 1060-1066: one text part and one
\* inline_data part per fetched result
ImageParts(k) == [candidates |-> <<[parts |-> k + 1]>>]

\* waitForKieImageResult resolves with the result URLs (line 1059); the
\* handler fetches the first of them, or answers when there is none
WaitReturns ==
  /\ rpc = "wait"
  /\ \E k \in 0..MaxResultUrls :
       LET got == [urls |-> k, fetched |-> 0]
       IN  /\ rGot' = got
           /\ IF ToFetch(rIn, got) > 0
                THEN Issue("binary", Call("binary", "", <<>>))
                ELSE Reply(200, ImageParts(0))
  /\ UNCHANGED <<rSurface, rKey, rIn, rUrls, usageLogs, rJob>>
  /\ UNCHANGED <<normVars, waitVars, clientGone, probeVars, chatCtl, ledgerVars, restVars>>

\* waitForKieImageResult throws (lines 372, 376); the catch answers 500
WaitThrows ==
  /\ rpc = "wait"
  /\ Reply(500, [error |-> "image generation failed"])
  /\ UNCHANGED <<rSurface, rKey, rIn, rUrls, rGot, usageLogs, rJob>>
  /\ UNCHANGED <<normVars, waitVars, clientGone, probeVars, chatCtl, ledgerVars, restVars>>

\* fetchBinaryAsBase64 resolves (lines 1062-1063); the next result is
\* fetched, or the handler answers
BinaryReturns ==
  /\ rpc = "binary"
  /\ LET got == [rGot EXCEPT !.fetched = @ + 1]
     IN  /\ rGot' = got
         /\ IF got.fetched < ToFetch(rIn, got)
              THEN Issue("binary", Call("binary", "", <<>>))
              ELSE Reply(200, ImageParts(got.fetched))
  /\ UNCHANGED <<rSurface, rKey, rIn, rUrls, usageLogs, rJob>>
  /\ UNCHANGED <<normVars, waitVars, clientGone, probeVars, chatCtl, ledgerVars, restVars>>

\* fetchBinaryAsBase64 throws (line 992); the catch answers 500
BinaryThrows ==
  /\ rpc = "binary"
  /\ Reply(500, [error |-> "Fetch file failed"])
  /\ UNCHANGED <<rSurface, rKey, rIn, rUrls, rGot, usageLogs, rJob>>
  /\ UNCHANGED <<normVars, waitVars, clientGone, probeVars, chatCtl, ledgerVars, restVars>>

NextApi ==
  \/ ApiUnauthenticated \/ VideoCreateEnter \/ PollEnter \/ KlingCreateEnter
  \/ GenerateContentEnter \/ TokenInfoEnter \/ CreditAnswers \/ LogSelf
  \/ UploadReturns \/ UploadThrows \/ SubmitReturns \/ SubmitThrows
  \/ RecordReturns \/ RecordThrows \/ FollowUp
  \/ WaitReturns \/ WaitThrows \/ BinaryReturns \/ BinaryThrows

SpecApi == InitApi /\ [][NextApi]_vars

-----------------------------------------------------------------------------
(* SpecSurfaces: one request to any caller-facing surface                  *)

InitSurfaces == InitApi \/ InitChat

NextSurfaces == NextApi \/ NextChat

SpecSurfaces == InitSurfaces /\ [][NextSurfaces]_vars

\* C12: on every surface a request without a credential is answered with
\* the unauthenticated-caller error (401), and no upstream call, ingestion
\* or usage-ledger append is made for it.
C12_NoCredentialNoWork ==
  /\ (rpc # "idle" /\ rKey = "") =>
       /\ rpc \in {"enter", "done"}
       /\ rCalls = <<>> /\ rUrls = <<>> /\ usageLogs = NoLogs
       /\ rpc = "done" => rRes.status = 401
  /\ (cpc # "idle" /\ cKey = "") =>
       /\ cpc \in {"enter", "done"}
       /\ cContacted = <<>> /\ usageLogs = NoLogs
       /\ cpc = "done" => (cRes.sent = "json" /\ cRes.status = 401)

\* a video-job create with an attached file and no credential was answered
C12_Witness ==
  /\ rSurface = "videoCreate" /\ rKey = "" /\ rIn.hasFile /\ isSoraModel(rIn.model)
  /\ rpc = "done" /\ rRes.status = 401

\* a chat request without a credential was answered
C12_WitnessChat ==
  /\ cKey = "" /\ cpc = "done" /\ cRes.status = 401

HasImageModality(in) ==
  in.modalities.t = "array" /\ \E i \in 1..Len(in.modalities.a) : in.modalities.a[i] = "IMAGE"

GenerateAnswered == rSurface = "generate" /\ rKey # "" /\ rpc # "enter"

\* the one-candidate, one-text-part answer holding the expansion of the
\* request's prompt: the instruction line, a blank line, the prompt (its
\* fragments joined by blank lines), a blank line, the checklist line; the
\* empty text for an empty prompt
LocalExpansionAnswer(in) ==
  [candidates |->
     <<[parts |-> <<[text |-> IF in.texts = <<>> THEN <<>>
                              ELSE <<PolishHead, "">> \o JoinBlank(in.texts)
                                     \o <<"", PolishTail>>]>>]>>]

\* C13 as stated: a multimodal-generate request with no inline images and
\* no responseModalities never issues an upstream call, whatever the model
\* identifier, and is answered with the local expansion of its prompt.
C13_NoImagesNoModalitiesIsLocal ==
  (GenerateAnswered /\ rIn.images = 0 /\ rIn.modalities = Undef) =>
     /\ rCalls = <<>>
     /\ rpc = "done" /\ rRes.status = 200 /\ rRes.body = LocalExpansionAnswer(rIn)

\* C13 amended: a multimodal-generate request with no inline images, no
\* IMAGE among its responseModalities and a model identifier that does not
\* contain "image" never issues an upstream call and is answered with
\* exactly one candidate holding one text part, the local expansion of its
\* prompt.
C13_TextOnlyIsLocal ==
  (GenerateAnswered /\ rIn.images = 0 /\ ~HasImageModality(rIn)
     /\ ~Includes(rIn.model, "image")) =>
     /\ rCalls = <<>>
     /\ rpc = "done" /\ rRes.status = 200 /\ rRes.body = LocalExpansionAnswer(rIn)

\* a two-fragment prompt with neither images nor modalities was expanded locally
C13_Witness ==
  /\ GenerateAnswered /\ rIn.images = 0 /\ rIn.modalities = Undef
  /\ rIn.model = "gemini-2.5-flash" /\ rIn.texts = <<"a cat", "at night">>
  /\ rpc = "done" /\ rCalls = <<>>
  /\ rRes.body.candidates[1].parts[1].text =
        <<PolishHead, "", "a cat", "", "at night", "", PolishTail>>

\* the request has submitted a job upstream and got its task id: a create
\* handler answered 200, or the multimodal handler went on to the wait
JobSubmitted ==
  \/ /\ rSurface \in {"videoCreate", "klingText", "klingImage"}
     /\ rpc = "done" /\ rRes.status = 200
  \/ /\ rSurface = "generate"
     /\ \E i \in 1..Len(rCalls) : rCalls[i].op = "wait"

\* the ledger holds exactly this one entry, under the hash of this key
OnlyEntry(key, entry) ==
  \A h \in KeyHashes :
    usageLogs[h] = IF h = sha256Short(key) THEN <<entry>> ELSE <<>>

\* C15: a request that has submitted work upstream (a video job of either
\* family, a vendor text-seed or image-seed job, a multimodal image job, a
\* forwarded chat request) has appended exactly one entry to the usage
\* ledger, under the hash of its credential.
C15_OneEntryPerSubmission ==
  /\ JobSubmitted => OnlyEntry(rKey, SubmitLogEntry(rSurface, rIn, rUrls))
  /\ AnsweredFromUpstream => OnlyEntry(cKey, ChatLogEntry)

\* a multimodal image job with two ingested images was submitted and
\* answered, and the ledger holds its one entry
C15_Witness ==
  /\ rSurface = "generate" /\ rKey = "key-b" /\ rIn.images = 2
  /\ rpc = "done" /\ rRes.status = 200
  /\ usageLogs[sha256Short("key-b")] =
       <<LogEntry("/v1beta/models/:generateContent", "image-create", 2)>>

\* a chat request was forwarded and the ledger holds its one entry
C15_WitnessChat ==
  /\ AnsweredFromUpstream /\ cRes.status = 200 /\ cpc = "done"
  /\ usageLogs[sha256Short(cKey)] = <<ChatLogEntry>>

StatusSurfaces == {"videoPoll", "videoContent", "klingTextPoll", "klingImagePoll"}

\* C19: a status request performs exactly one upstream record fetch and
\* then answers; its handler never fetches the record a second time, and
\* no other handler fetches a job record itself (the multimodal handler
\* leaves that to the wait engine).
C19_OneFetchPerStatusRequest ==
  /\ (rSurface \in StatusSurfaces /\ rKey # "") =>
       /\ rpc \in {"enter", "record", "done"}
       /\ rpc = "enter" => rCalls = <<>>
       /\ rpc \in {"record", "done"} =>
            /\ Len(rCalls) = 1
            /\ rCalls[1].op = IF rSurface \in {"videoPoll", "videoContent"}
                                    /\ StartsWithVeo(rIn.taskId)
                                 THEN "veoRecordInfo" ELSE "recordInfo"
  /\ rSurface \notin StatusSurfaces =>
       \A i \in 1..Len(rCalls) : rCalls[i].op \notin {"recordInfo", "veoRecordInfo"}

\* a video-job poll of a Veo task was answered as processing after its one fetch
C19_Witness ==
  /\ rSurface = "videoPoll" /\ rIn.taskId = "veo_task_1"
  /\ rpc = "done" /\ rRes.status = 200 /\ rRes.body.status = "processing"
  /\ Len(rCalls) = 1

IsSubmission(call) == call.op \in {"createTask", "veoGenerate", "imageGenerate"}

\* C20: on video-job create with an attached file, for both model
\* families, the file is ingested before the job is submitted and the
\* hosted URL ingestion returned is part of the submitted job input.
C20_FileIngestedBeforeSubmit ==
  (rSurface = "videoCreate" /\ rIn.hasFile) =>
     \A i \in 1..Len(rCalls) :
       IsSubmission(rCalls[i]) =>
         /\ \E j \in 1..(i - 1) : rCalls[j].op = "upload"
         /\ rUrls # <<>>
         /\ rCalls[i].urls = rUrls

\* the market family does ingest the file first and submits its hosted URL
MarketFileIngestedFirst ==
  (rSurface = "videoCreate" /\ rIn.hasFile /\ ~isVeoModel(rIn.model)) =>
     \A i \in 1..Len(rCalls) :
       IsSubmission(rCalls[i]) =>
         /\ i = 2 /\ rCalls[1].op = "upload"
         /\ rCalls[i].urls = <<FileUrl(1)>>

\* a status or content lookup of a job this caller created has fetched
\* the job's record
CreatedJobLookedUp ==
  /\ rSurface \in {"videoPoll", "videoContent"} /\ rJob # NoJob
  /\ rCalls # <<>>

\* C21: on a video-job status poll the family of the job dictates the
\* record-lookup path: a job created through the Veo family is looked up
\* on the Veo record path and a job created through the market family on
\* the market record path, whatever id the upstream minted for it.
C21_FamilyDictatesLookupPath ==
  CreatedJobLookedUp =>
    rCalls[1].op = (IF rJob.family = "veo" THEN "veoRecordInfo" ELSE "recordInfo")

\* the lookup path follows the prefix of the job id, whatever the family
\* (holds; C21's formula above does not)
LookupFollowsIdPrefix ==
  CreatedJobLookedUp =>
    rCalls[1].op = (IF StartsWithVeo(rJob.id) THEN "veoRecordInfo" ELSE "recordInfo")

\* a create surface has answered after awaiting its job submission
SubmissionAnswered ==
  /\ rSurface \in {"videoCreate", "klingText", "klingImage"}
  /\ rpc = "done" /\ rCalls # <<>>
  /\ rCalls[Len(rCalls)].op \in {"createTask", "veoGenerate"}

FourKeys(ans) == {ans.dataTaskId, ans.dataTask_id, ans.taskId, ans.task_id}

\* C22: a job submission fails as rejected whenever the upstream answers
\* with a non-success status and as malformed whenever a success status
\* carries no job id under data.taskId, data.task_id, taskId or task_id; it
\* returns an id only when one was present, never a defaulted or empty
\* one, and on failure the create surface answers with an error and no
\* task id.
C22_SubmissionFailsOrReturnsPresentId ==
  SubmissionAnswered =>
    /\ (~rGot.threw /\ ~rGot.ok) =>
          /\ rRes.status = 500
          /\ ErrorText(rRes.body) \in {"KIE createTask failed (status)",
                                        "KIE Veo generate failed (status)"}
    /\ (~rGot.threw /\ rGot.ok /\ \A v \in FourKeys(rGot) : ~Truthy(v)) =>
          /\ rRes.status = 500
          /\ ErrorText(rRes.body) \in {"KIE createTask: missing taskId",
                                        "KIE Veo: missing taskId"}
    /\ rRes.status = 200 =>
          /\ ~rGot.threw /\ rGot.ok
          /\ \E v \in FourKeys(rGot) :
                /\ Truthy(v) /\ rJob.id = v.s /\ rJob.id # ""
                /\ rRes.body = CreatedBody(rSurface, rIn, v)
    /\ rRes.status # 200 =>
          /\ rRes.status = 500 /\ rJob = NoJob
          /\ DOMAIN rRes.body \in {{"error"}, {"message"}}

\* a non-success status whose body nevertheless holds an id was rejected
C22_Witness ==
  /\ SubmissionAnswered /\ ~rGot.threw /\ ~rGot.ok /\ rGot.dataTaskId = Str("task_1")
  /\ rRes.status = 500

\* a success status holding only empty ids was reported as malformed
C22_WitnessMalformed ==
  /\ SubmissionAnswered /\ rSurface = "klingText" /\ rGot.ok
  /\ rGot.dataTaskId = Str("") /\ rGot.task_id = Str("")
  /\ rRes.status = 500

\* an id found under the last of the four keys was returned
C22_WitnessLastKey ==
  /\ SubmissionAnswered /\ rGot.ok
  /\ rGot.dataTaskId = Undef /\ rGot.dataTask_id = Str("") /\ rGot.taskId = Undef
  /\ rGot.task_id = Str("task_1")
  /\ rRes.status = 200 /\ rJob.id = "task_1"

\* kieUploadBuffer was called with a credential, as each of its callers
\* does (lines 694, 867, 1016), and has returned or thrown
Ingested == pFn = "upload" /\ pKey /\ ppc = "done"

\* C23: ingestion of an empty buffer fails at once with the invalid-payload
\* error and contacts no upload endpoint; ingestion of a non-empty buffer
\* fails with the ingestion-failed error only after every candidate
\* endpoint was attempted, and otherwise returns a non-empty hosted URL.
C23_IngestionOutcomes ==
  /\ (pFn = "upload" /\ pBufLen = 0) => pCalls = <<>>
  /\ (Ingested /\ pBufLen = 0) =>
        pResult = [kind |-> "error", message |-> "Empty upload"]
  /\ (Ingested /\ pBufLen > 0) =>
        \/ /\ pResult = [kind |-> "error", message |-> UploadFailed]
           /\ pCalls = UploadCandidates
        \/ /\ pResult.kind = "url" /\ pResult.value # ""
           /\ pOutcomes[Len(pOutcomes)].ok

\* an empty buffer was refused
C23_Witness == Ingested /\ pBufLen = 0 /\ pResult.kind = "error"

\* a non-empty buffer failed after the three candidates, the last of which
\* answered with a success status and no URL
C23_WitnessExhausted ==
  /\ Ingested /\ pBufLen > 0 /\ pResult.kind = "error"
  /\ Len(pCalls) = 3 /\ pOutcomes[3] = Answer(TRUE, Keys, Keys)

\* a non-empty buffer was hosted by the second candidate
C23_WitnessHosted ==
  /\ Ingested /\ pBufLen > 0 /\ pResult.kind = "url" /\ Len(pCalls) = 2

\* the multimodal handler has answered with the results of an image job
ImagesAnswered ==
  /\ rSurface = "generate" /\ rpc = "done" /\ rRes.status = 200
  /\ \E i \in 1..Len(rCalls) : rCalls[i].op = "wait"

\* the inline_data parts of the answer: all its parts but the text part
Embedded == rRes.body.candidates[1].parts - 1

\* the requested candidate count brought into 1..4, 1 when none is
\* requested
ClampedRequest(in) ==
  LET c == in.candidateCount
  IN  IF c.t # "number" \/ c.n = 0 THEN 1
      ELSE IF c.n < 1 THEN 1 ELSE IF c.n > 4 THEN 4 ELSE c.n

BinaryFetches == Cardinality({ i \in 1..Len(rCalls) : rCalls[i].op = "binary" })

\* C24: the multimodal image answer re-embeds at most 4 result images,
\* whatever candidateCount the request carries and however many result
\* URLs the upstream returns, and never more than the requested count
\* brought into 1..4 nor than the URLs returned.
C24_AtMostFourImages ==
  /\ rSurface = "generate" => BinaryFetches <= 4
  /\ ImagesAnswered =>
        /\ Embedded <= 4
        /\ Embedded <= ClampedRequest(rIn)
        /\ Embedded <= rGot.urls
        /\ Embedded = BinaryFetches

\* nine candidates were requested, five URLs returned, four embedded
C24_Witness ==
  /\ ImagesAnswered /\ rIn.candidateCount = Num(9) /\ rGot.urls = 5 /\ Embedded = 4

\* no count was requested, five URLs returned, one embedded
C24_WitnessDefault ==
  /\ ImagesAnswered /\ rIn.candidateCount = Undef /\ rGot.urls = 5 /\ Embedded = 1

\* a text2video job was created and a poll of it has been answered from
\* the fetched record
TextSeedPolled ==
  /\ rSurface = "klingTextPoll" /\ rJob # NoJob /\ rIn.taskId = rJob.id
  /\ rpc = "done" /\ rRes.status = 200

\* the message of a failed record: data.errorMessage, else data.message,
\* else msg, else the fixed word
FailureMessage(json) ==
  LET data == IF json.data.present THEN json.data ELSE EmptyObject
  IN  IF Truthy(data.errorMessage) THEN data.errorMessage
      ELSE IF Truthy(data.message) THEN data.message
      ELSE IF Truthy(json.msg) THEN json.msg
      ELSE Str("failed")

C25_WitnessFailed ==
  /\ TextSeedPolled
  /\ rRes.body = [task_status |-> "failed", task_status_msg |-> Str("bad prompt")]

C25_WitnessPending ==
  /\ TextSeedPolled /\ rGot.data.state = Str("waiting")
  /\ rRes.body = [task_status |-> "processing"]

-----------------------------------------------------------------------------
(* SpecMime: detectImageMime applied to a buffer                           *)

\* the bytes the four signatures are made of, and one that is in none
SignatureBytes == {137, 80, 78, 71, 255, 216, 82, 73, 70, 0}

\* length of the leading bytes that are enumerated
MaxHeadLen == 4

Heads == UNION { [1..n -> SignatureBytes] : n \in 0..MaxHeadLen }

RIFF == <<82, 73, 70, 70>>
WEBP == <<87, 69, 66, 80>>
WAVE == <<87, 65, 86, 69>>

\* what follows the leading bytes: nothing, or the rest of the header of a
\* RIFF container, four size bytes and the form type
Tails == { <<>>, <<36, 0, 0, 0>> \o WEBP, <<36, 0, 0, 0>> \o WAVE }

\* buffer[i], for i < buffer.length
ByteAt(buffer, i) == buffer[i + 1]

\* lines 117-128
detectImageMime(buffer) ==
  IF Len(buffer) < 4 THEN "image/png"
  ELSE IF ByteAt(buffer, 0) = 137 /\ ByteAt(buffer, 1) = 80 /\ ByteAt(buffer, 2) = 78
          /\ ByteAt(buffer, 3) = 71 THEN "image/png"
  ELSE IF ByteAt(buffer, 0) = 255 /\ ByteAt(buffer, 1) = 216 /\ ByteAt(buffer, 2) = 255
    THEN "image/jpeg"
  ELSE IF ByteAt(buffer, 0) = 71 /\ ByteAt(buffer, 1) = 73 /\ ByteAt(buffer, 2) = 70
    THEN "image/gif"
  ELSE IF ByteAt(buffer, 0) = 82 /\ ByteAt(buffer, 1) = 73 /\ ByteAt(buffer, 2) = 70
          /\ ByteAt(buffer, 3) = 70 THEN "image/webp"
  ELSE "image/png"

InitMime ==
  /\ mBuf \in { head \o tail : head \in Heads, tail \in Tails }
  /\ mMime = ""
  /\ ServerIdle /\ usageLogs = NoLogs /\ StoreIdle /\ BatchIdle /\ LaterIdle

Detect ==
  /\ mMime = ""
  /\ mMime' = detectImageMime(mBuf)
  /\ UNCHANGED <<mBuf, serverVars, usageLogs, storeVars, batchVars, laterVars>>

NextMime == Detect

SpecMime == InitMime /\ [][NextMime]_vars

StartsWith(buffer, bytes) ==
  Len(buffer) >= Len(bytes) /\ SubSeq(buffer, 1, Len(bytes)) = bytes

\* a RIFF container whose form type, at bytes 8 to 11, is WEBP
IsRiffWebp(buffer) ==
  StartsWith(buffer, RIFF) /\ Len(buffer) >= 12 /\ SubSeq(buffer, 9, 12) = WEBP

\* C26: detectImageMime returns image/png for a PNG header, image/jpeg for
\* the SOI marker, image/gif for a GIF header, image/webp for a RIFF/WEBP
\* header, and the image/png default for everything else, RIFF containers
\* that are not WEBP and buffers shorter than 4 bytes included.
C26_MimeBySignature ==
  mMime # "" =>
    mMime = IF Len(mBuf) < 4 THEN "image/png"
            ELSE IF StartsWith(mBuf, <<137, 80, 78, 71>>) THEN "image/png"
            ELSE IF StartsWith(mBuf, <<255, 216, 255>>) THEN "image/jpeg"
            ELSE IF StartsWith(mBuf, <<71, 73, 70>>) THEN "image/gif"
            ELSE IF IsRiffWebp(mBuf) THEN "image/webp"
            ELSE "image/png"

\* what holds instead: every buffer of four bytes or more that starts with
\* RIFF is taken for WEBP, whatever its form type
RiffAloneIsWebp ==
  mMime # "" =>
    /\ (Len(mBuf) >= 4 /\ StartsWith(mBuf, RIFF)) => mMime = "image/webp"
    /\ (mMime # "image/webp" \/ IsRiffWebp(mBuf)) => C26_MimeBySignature

-----------------------------------------------------------------------------
(* SpecStore: the requests that write generations.json,                    *)
(* sora-characters.json and the usage ledger                               *)

\* records kept in the two files together
MaxStored == 3

\* the identifiers minted for stored records (lines 551, 932)
RecordIds == {"id-1", "id-2", "id-3"}

\* what callers send as prompt, model or note
Prompts == {"", "a cat"}
StoredModels == {"", "sora-2"}

\* faulty variant: the record keeps the credential as it came
GenerationRecordRawKey(id, apiKey, prompt, model) ==
  [id |-> id, apiKeyHash |-> apiKey, prompt |-> prompt, model |-> model,
   sourceType |-> "text"]

\* line 569
GenerationRecord(id, apiKey, prompt, model) ==
  [id |-> id, apiKeyHash |-> IF apiKey # "" THEN sha256Short(apiKey) ELSE "",
   prompt |-> prompt, model |-> model, sourceType |-> "text"]

\* line 933: (note || 'character') with blanks replaced and cut
Username(note) == IF note = "" THEN "character" ELSE "a_cat"

\* lines 940-946
CharacterRecord(id, note) ==
  [id |-> id, username |-> Username(note), profile_picture_url |-> "",
   source |-> "https://h/clip"]

\* line 951
CharacterLogEntry(note) ==
  [model_name |-> "sora:characters(local)", prompt |-> IF note = "" THEN "(no note)" ELSE note,
   image_count |-> 0, path |-> "/sora/v1/characters", kind |-> "create"]

\* all[keyHash] || []
CharactersOf(all, keyHash) == IF keyHash \in DOMAIN all THEN all[keyHash] ELSE <<>>

Stored ==
  Len(sGenerations)
    + Cardinality({ <<h, i>> \in (DOMAIN sCharacters) \X (1..MaxStored) :
                      i <= Len(sCharacters[h]) })

StoredIds ==
  { sGenerations[i].id : i \in 1..Len(sGenerations) }
    \cup { sCharacters[h][i].id : <<h, i>> \in
               { p \in (DOMAIN sCharacters) \X (1..MaxStored) : p[2] <= Len(sCharacters[p[1]]) } }

InitStore ==
  /\ sGenerations = <<>> /\ sCharacters = <<>>
  /\ usageLogs = NoLogs
  /\ ServerIdle /\ MimeIdle /\ BatchIdle /\ LaterIdle

\* POST /api/generations, lines 546-580; the credential is a field of the body
PostGeneration ==
  /\ Stored < MaxStored
  /\ \E apiKey \in ApiKeys, prompt \in Prompts, model \in StoredModels,
        id \in RecordIds \ StoredIds :
       sGenerations' = <<GenerationRecord(id, apiKey, prompt, model)>> \o sGenerations
  /\ UNCHANGED <<sCharacters, usageLogs, serverVars, mimeVars, batchVars, laterVars>>

\* DELETE /api/generations/:id, lines 600-616
DeleteGeneration ==
  /\ \E id \in RecordIds, apiKey \in ApiKeys :
       LET keyHash == IF apiKey # "" THEN sha256Short(apiKey) ELSE ""
           hits == { i \in 1..Len(sGenerations) :
                       /\ sGenerations[i].id = id
                       /\ (keyHash = "" \/ sGenerations[i].apiKeyHash = keyHash) }
       IN  /\ hits # {}
           /\ LET idx == CHOOSE i \in hits : \A j \in hits : i <= j
               IN  sGenerations' = SubSeq(sGenerations, 1, idx - 1)
                                     \o SubSeq(sGenerations, idx + 1, Len(sGenerations))
  /\ UNCHANGED <<sCharacters, usageLogs, serverVars, mimeVars, batchVars, laterVars>>

\* POST /sora/v1/characters, lines 926-953; the credential is the bearer
\* token, and a request without one is refused before anything is stored
PostCharacter ==
  /\ Stored < MaxStored
  /\ \E apiKey \in ApiKeys \ {""}, note \in Prompts, id \in RecordIds \ StoredIds :
       LET keyHash == sha256Short(apiKey)
           list == <<CharacterRecord(id, note)>> \o CharactersOf(sCharacters, keyHash)
       IN  /\ sCharacters' = [h \in DOMAIN sCharacters \cup {keyHash} |->
                                 IF h = keyHash THEN list ELSE sCharacters[h]]
           /\ usageLogs' = pushUsageLog(usageLogs, apiKey, CharacterLogEntry(note))
  /\ UNCHANGED <<sGenerations, serverVars, mimeVars, batchVars, laterVars>>

NextStore == PostGeneration \/ DeleteGeneration \/ PostCharacter

SpecStore == InitStore /\ [][NextStore]_vars

\* the credentials callers present
RawKeys == ApiKeys \ {""}

\* the values of the text fields of a stored record or ledger entry
FieldValues(rec) == { rec[f] : f \in DOMAIN rec \ {"image_count"} }

ListValues(list) == UNION { FieldValues(list[i]) : i \in 1..Len(list) }

\* C27: the raw credential is never persisted: the keys and entries of the
\* usage ledger, the stored generation records and the stored character
\* lists hold the short hash of a credential and never the credential.
C27_RawKeyNeverStored ==
  /\ ListValues(sGenerations) \cap RawKeys = {}
  /\ \A i \in 1..Len(sGenerations) :
        sGenerations[i].apiKeyHash \in KeyHashes \cup {""}
  /\ DOMAIN sCharacters \subseteq KeyHashes
  /\ \A h \in DOMAIN sCharacters : ListValues(sCharacters[h]) \cap RawKeys = {}
  /\ DOMAIN usageLogs \subseteq KeyHashes
  /\ \A h \in DOMAIN usageLogs : ListValues(usageLogs[h]) \cap RawKeys = {}

\* a generation and two characters of two credentials are stored
C27_Witness ==
  /\ Len(sGenerations) = 1 /\ sGenerations[1].apiKeyHash = sha256Short("key-a")
  /\ DOMAIN sCharacters = KeyHashes
  /\ Len(usageLogs[sha256Short("key-b")]) = 1

\* the job submissions among the calls of the request
Submissions == { i \in 1..Len(rCalls) : rCalls[i].op \in {"createTask", "veoGenerate"} }

\* the caller's value names an enumerated ratio: it is one, or differs from
\* one only by surrounding blanks or by the letter case of Auto
NamesRatio(v, ratio) ==
  \/ Trim(v) = ratio
  \/ ratio = "Auto" /\ Trim(v) \in {"auto", "AUTO", "Auto"}

\* C28: the aspect ratio of every submitted job input is one of 16:9, 9:16,
\* 1:1, 4:3, 3:4 and Auto: a caller value of that enumeration is submitted
\* unchanged, a missing value or one the gateway does not recognize (none
\* of the six, compared without surrounding blanks and, for Auto, without
\* regard to letter case) becomes 16:9, and the vendor image-seed surface
\* always submits 16:9.
C28_AspectRatioEnumerated ==
  \A i \in Submissions :
    LET aspect == rCalls[i].aspect
    IN  /\ aspect \in {"16:9", "9:16", "1:1", "4:3", "3:4", "Auto"}
        /\ rSurface = "klingImage" => aspect = "16:9"
        /\ rSurface \in {"videoCreate", "klingText"} =>
              /\ rIn.ratio \in {"16:9", "9:16", "1:1", "4:3", "3:4", "Auto"} =>
                    aspect = rIn.ratio
              /\ (\A r \in {"16:9", "9:16", "1:1", "4:3", "3:4", "Auto"} :
                     ~NamesRatio(rIn.ratio, r)) => aspect = "16:9"
              /\ \A r \in {"16:9", "9:16", "1:1", "4:3", "3:4", "Auto"} :
                    NamesRatio(rIn.ratio, r) => aspect = r

\* a market job asked for with a ratio outside the enumeration was
\* submitted with 16:9
C28_Witness ==
  /\ rSurface = "videoCreate" /\ isSoraModel(rIn.model) /\ rIn.ratio = "21:9"
  /\ Submissions # {} /\ \A i \in Submissions : rCalls[i].aspect = "16:9"

\* a Veo job asked for with Auto was submitted with Auto
C28_WitnessAuto ==
  /\ rSurface = "videoCreate" /\ isVeoModel(rIn.model) /\ rIn.ratio = "Auto"
  /\ Submissions # {} /\ \A i \in Submissions : rCalls[i].aspect = "Auto"

\* an image-seed request naming 9:16 was submitted with 16:9
C28_WitnessImageSeed ==
  /\ rSurface = "klingImage" /\ rIn.ratio = "9:16"
  /\ Submissions # {} /\ \A i \in Submissions : rCalls[i].aspect = "16:9"

\* the upstream response the chat handler answered from
ChatUpstream == cOutcomes[Len(cOutcomes)]

\* C29: when the chat surface answers from an upstream candidate the caller
\* receives the upstream's status and every upstream header except
\* content-encoding, and both are set before any body byte is forwarded:
\* a chunk is forwarded only once they are set, and leaves them as they are.
C29_StatusAndHeadersFirst ==
  /\ [](AnsweredFromUpstream =>
          /\ cRes.status = ChatUpstream.status
          /\ cRes.headers = ChatUpstream.headers \ {"content-encoding"})
  /\ [][(cRes'.sent = "stream" /\ cRes.sent # "stream") => cRes'.chunks = 0]_vars
  /\ [][(cRes.sent = "stream" /\ cRes'.chunks # cRes.chunks) =>
           /\ cRes'.sent = "stream"
           /\ cRes'.status = cRes.status /\ cRes'.headers = cRes.headers]_vars

\* an upstream answer of status 500 with three headers, content-encoding
\* among them, was relayed with the other two, and a chunk has followed
C29_Witness ==
  /\ AnsweredFromUpstream /\ cRes.status = 500
  /\ ChatUpstream.headers = {"content-type", "content-encoding", "x-request-id"}
  /\ cRes.headers = {"content-type", "x-request-id"}
  /\ cRes.chunks = 1

-----------------------------------------------------------------------------
(* SpecBatch: one BatchProcessor running process(tasks), with pause() and  *)
(* resume() called by the page or from inside its callbacks                *)

\* tasks of one batch
MaxTasks == 3

\* the largest maxConcurrent option tried
MaxOption == 2

\* what a task does: its execute() returns a promise that is fulfilled or
\* rejected later, or throws at once, or the task has no execute function
TaskKinds == {"fulfils", "rejects", "throws", "noExecute"}

\* the tasks whose execute() returns a promise
Asynchronous == {"fulfils", "rejects"}

TaskLists == UNION { [1..n -> TaskKinds] : n \in 0..MaxTasks }

\* line 31: Math.max(1, Number(maxConcurrent) || 1)
maxConcurrent(option) == IF option < 1 THEN 1 ELSE option

\* faulty variant: one worker per task
workerCountPerTask(option, total) == IF total = 0 THEN 1 ELSE total

\* line 190: Math.min(this.maxConcurrent, total || 1)
workerCount(option, total) ==
  Min(maxConcurrent(option), IF total = 0 THEN 1 ELSE total)

InitBatch ==
  /\ bOpt \in 0..MaxOption
  /\ bTasks = <<>>
  /\ bPaused \in BOOLEAN
  /\ bRunning = FALSE /\ bpc = "idle" /\ bThrown = 0
  /\ bNext = 0 /\ bCount = <<>> /\ bResults = <<>> /\ bErrors = <<>> /\ bW = <<>>
  /\ ServerIdle /\ usageLogs = NoLogs /\ MimeIdle /\ StoreIdle /\ LaterIdle

\* lines 175-178, 70-74: a worker enters _waitWhilePaused, which returns at
\* once or awaits the pause promise
AfterPauseCheck(paused) == IF paused THEN "blocked" ELSE "take"

\* lines 85-98, 189-192: process(tasks) from this._running = true up to
\* await Promise.all(workers); every worker runs to its first await
StartBatch(tasks) ==
  /\ bRunning' = TRUE /\ bpc' = "running"
  /\ bTasks' = tasks
  /\ bNext' = 0
  /\ bCount' = [completed |-> 0, succeeded |-> 0, failed |-> 0]
  /\ bResults' = [i \in 1..Len(tasks) |-> "empty"]
  /\ bErrors' = [i \in 1..Len(tasks) |-> "empty"]
  /\ bW' = [w \in 1..workerCount(bOpt, Len(tasks)) |->
              [pc |-> AfterPauseCheck(bPaused), i |-> 0]]
  /\ UNCHANGED <<bOpt, bPaused>>

\* lines 81-98, 189-192: process(tasks) is called while no batch runs, for
\* the first time or after an earlier batch
ProcessStart ==
  /\ ~bRunning
  /\ \E tasks \in TaskLists : StartBatch(tasks)
  /\ UNCHANGED bThrown
  /\ UNCHANGED <<serverVars, usageLogs, mimeVars, storeVars, laterVars>>

\* calls of process() that throw, counted up to
MaxThrown == 1

\* faulty variant: a call made while a batch runs starts its own batch
ProcessRunsAnyway ==
  /\ bRunning /\ bThrown < MaxThrown
  /\ bThrown' = bThrown + 1
  /\ \E tasks \in TaskLists : StartBatch(tasks)
  /\ UNCHANGED <<serverVars, usageLogs, mimeVars, storeVars, laterVars>>

\* lines 81-84: process() is called while a batch runs and throws
ProcessRejected ==
  /\ bRunning /\ bThrown < MaxThrown
  /\ bThrown' = bThrown + 1
  /\ UNCHANGED <<bOpt, bTasks, bRunning, bPaused, bpc, bNext, bCount, bResults, bErrors, bW>>
  /\ UNCHANGED <<serverVars, usageLogs, mimeVars, storeVars, laterVars>>

\* lines 49-68 as called from a callback of the page (onError,
\* onTaskComplete, onProgress, onComplete): it calls pause(), resume() or
\* neither; resume() resolves the pause promise, which wakes the workers
\* that await it
CallbackCalls == {"nothing", "pause", "resume"}

PausedAfter(call) ==
  CASE call = "pause" -> TRUE
    [] call = "resume" -> FALSE
    [] OTHER -> bPaused

Woken(workers, call) ==
  IF call = "resume" /\ bPaused
    THEN [w \in DOMAIN workers |->
            IF workers[w].pc = "blocked" THEN [workers[w] EXCEPT !.pc = "loop"] ELSE workers[w]]
    ELSE workers

\* faulty variant: a failed task ends its worker
RecordStopsOnFailure(w, i, ok) ==
  /\ bResults' = IF ok THEN [bResults EXCEPT ![i + 1] = "result"] ELSE bResults
  /\ bErrors' = IF ok THEN bErrors ELSE [bErrors EXCEPT ![i + 1] = "error"]
  /\ bCount' = [completed |-> bCount.completed + 1,
                 succeeded |-> bCount.succeeded + (IF ok THEN 1 ELSE 0),
                 failed |-> bCount.failed + (IF ok THEN 0 ELSE 1)]
  /\ bPaused' = bPaused
  /\ bW' = [bW EXCEPT ![w] = [pc |-> IF ok THEN "loop" ELSE "exit", i |-> i]]

\* lines 140-172: the outcome of task i is recorded and the callbacks run
Record(w, i, ok) ==
  /\ bResults' = IF ok THEN [bResults EXCEPT ![i + 1] = "result"] ELSE bResults
  /\ bErrors' = IF ok THEN bErrors ELSE [bErrors EXCEPT ![i + 1] = "error"]
  /\ bCount' = [completed |-> bCount.completed + 1,
                 succeeded |-> bCount.succeeded + (IF ok THEN 1 ELSE 0),
                 failed |-> bCount.failed + (IF ok THEN 0 ELSE 1)]
  /\ \E call \in CallbackCalls :
       /\ bPaused' = PausedAfter(call)
       /\ bW' = Woken([bW EXCEPT ![w] = [pc |-> "loop", i |-> i]], call)

\* lines 181-186, 127-138: a worker past its pause check takes the next
\* index; it leaves the loop, or runs the task up to await task.execute(),
\* or records at once the failure of a task without execute() or whose
\* execute() throws
WorkerTakes(w) ==
  /\ bpc = "running" /\ bW[w].pc = "take"
  /\ bNext' = bNext + 1
  /\ IF bNext >= Len(bTasks)
       THEN /\ bW' = [bW EXCEPT ![w] = [pc |-> "exit", i |-> 0]]
            /\ UNCHANGED <<bPaused, bCount, bResults, bErrors>>
     ELSE IF bTasks[bNext + 1] \notin Asynchronous
       THEN Record(w, bNext, FALSE)
     ELSE /\ bW' = [bW EXCEPT ![w] = [pc |-> "executing", i |-> bNext]]
          /\ UNCHANGED <<bPaused, bCount, bResults, bErrors>>
  /\ UNCHANGED <<bThrown, bOpt, bTasks, bRunning, bpc>>
  /\ UNCHANGED <<serverVars, usageLogs, mimeVars, storeVars, laterVars>>

\* lines 140-172: the promise of execute() settles and runOne goes on
TaskSettles(w) ==
  /\ bpc = "running" /\ bW[w].pc = "executing"
  /\ Record(w, bW[w].i, bTasks[bW[w].i + 1] = "fulfils")
  /\ UNCHANGED <<bThrown, bOpt, bTasks, bRunning, bpc, bNext>>
  /\ UNCHANGED <<serverVars, usageLogs, mimeVars, storeVars, laterVars>>

\* lines 176-178, 70-74: runOne has returned, or the pause promise was
\* resolved: the worker checks this._paused (again)
WorkerLoops(w) ==
  /\ bpc = "running" /\ bW[w].pc = "loop"
  /\ bW' = [bW EXCEPT ![w].pc = AfterPauseCheck(bPaused)]
  /\ UNCHANGED <<bThrown, bOpt, bTasks, bRunning, bPaused, bpc, bNext, bCount, bResults, bErrors>>
  /\ UNCHANGED <<serverVars, usageLogs, mimeVars, storeVars, laterVars>>

\* lines 49-57: the page calls pause()
Pause ==
  /\ bpc = "running" /\ ~bPaused
  /\ bPaused' = TRUE
  /\ UNCHANGED <<bThrown, bOpt, bTasks, bRunning, bpc, bNext, bCount, bResults, bErrors, bW>>
  /\ UNCHANGED <<serverVars, usageLogs, mimeVars, storeVars, laterVars>>

\* lines 59-68: the page calls resume()
Resume ==
  /\ bpc = "running" /\ bPaused
  /\ bPaused' = FALSE
  /\ bW' = Woken(bW, "resume")
  /\ UNCHANGED <<bThrown, bOpt, bTasks, bRunning, bpc, bNext, bCount, bResults, bErrors>>
  /\ UNCHANGED <<serverVars, usageLogs, mimeVars, storeVars, laterVars>>

\* lines 192-203: every worker has returned; the summary is built,
\* onComplete runs and process() resolves
ProcessResolves ==
  /\ bpc = "running" /\ \A w \in DOMAIN bW : bW[w].pc = "exit"
  /\ bpc' = "resolved" /\ bRunning' = FALSE
  /\ \E call \in CallbackCalls : bPaused' = PausedAfter(call)
  /\ UNCHANGED <<bThrown, bOpt, bTasks, bNext, bCount, bResults, bErrors, bW>>
  /\ UNCHANGED <<serverVars, usageLogs, mimeVars, storeVars, laterVars>>

NextBatch ==
  \/ ProcessStart \/ ProcessRejected \/ Pause \/ Resume \/ ProcessResolves
  \/ \E w \in DOMAIN bW : WorkerTakes(w) \/ TaskSettles(w) \/ WorkerLoops(w)

SpecBatch == InitBatch /\ [][NextBatch]_vars

\* the tasks whose execute() was called and whose promise has not settled:
\* their index was taken, they have an execute function, and neither a
\* result nor an error is recorded for them
InFlight ==
  { i \in 0..(Len(bTasks) - 1) :
      /\ i < bNext /\ bTasks[i + 1] \in Asynchronous
      /\ bResults[i + 1] = "empty" /\ bErrors[i + 1] = "empty" }

\* C30: while process() runs, the tasks whose execute() has started and not
\* yet settled are at most maxConcurrent and at most the tasks of the
\* list, whatever the list and the order in which tasks settle.
C30_BoundedConcurrency ==
  bpc # "idle" =>
    /\ Cardinality(InFlight) <= (IF bOpt < 1 THEN 1 ELSE bOpt)
    /\ Cardinality(InFlight) <= Len(bTasks)
    /\ InFlight = { bW[w].i : w \in { v \in DOMAIN bW : bW[v].pc = "executing" } }

\* with maxConcurrent 2 and three tasks, the first task has settled and the
\* other two are in flight together
C30_Witness ==
  /\ bpc = "running" /\ bOpt = 2 /\ Len(bTasks) = 3
  /\ InFlight = {1, 2} /\ bResults[1] = "result"

\* the tasks whose outcome is recorded
Recorded ==
  { i \in 0..(Len(bTasks) - 1) : bResults[i + 1] # "empty" \/ bErrors[i + 1] # "empty" }

\* task i has its outcome, and only its own, in results[i] / errors[i]
OutcomeOf(i) ==
  IF bTasks[i + 1] = "fulfils"
    THEN bResults[i + 1] = "result" /\ bErrors[i + 1] = "empty"
    ELSE bResults[i + 1] = "empty" /\ bErrors[i + 1] = "error"

\* C31: every task of the list is executed exactly once whatever the order
\* in which the workers complete: completed counts one per recorded task and
\* is succeeded + failed all along, a task is recorded or in flight only
\* after its index was taken, a task that throws, rejects or has no
\* execute() is recorded as failed, and when process() resolves every task
\* is recorded, completed = succeeded + failed = total, and results[i] /
\* errors[i] hold the outcome of task i.
C31_EveryTaskOnce ==
  bpc # "idle" =>
    /\ bCount.completed = bCount.succeeded + bCount.failed
    /\ bCount.completed = Cardinality(Recorded)
    /\ bCount.succeeded = Cardinality({ i \in Recorded : bTasks[i + 1] = "fulfils" })
    /\ \A i \in Recorded : OutcomeOf(i)
    /\ Recorded \cup InFlight = { i \in 0..(Len(bTasks) - 1) : i < bNext }
    /\ Recorded \cap InFlight = {}
    /\ bpc = "resolved" =>
         /\ Recorded = 0..(Len(bTasks) - 1)
         /\ bCount.completed = Len(bTasks)

\* process() has resolved for three tasks run by two workers: the first
\* rejected, the second has no execute(), the third was fulfilled
C31_Witness ==
  /\ bpc = "resolved" /\ bOpt = 2
  /\ bTasks = <<"rejects", "noExecute", "fulfils">>
  /\ bCount = [completed |-> 3, succeeded |-> 1, failed |-> 2]
  /\ bResults = <<"empty", "empty", "result">>
  /\ bErrors = <<"error", "error", "empty">>

\* the workers complete out of order: the third task, taken last, is
\* recorded while the first is still in flight, after the second threw
C31_WitnessOutOfOrder ==
  /\ bpc = "running" /\ bTasks = <<"fulfils", "throws", "fulfils">>
  /\ InFlight = {0} /\ Recorded = {1, 2}

\* a step in which a worker calls execute() of a task not started before
StartsTask ==
  /\ bpc = "running" /\ bNext' = bNext + 1
  /\ bNext < Len(bTasks) /\ bTasks[bNext + 1] # "noExecute"

\* C32 (safety half): from the moment pause() is called until resume() is
\* called, no task that has not yet started begins executing.  It does not
\* hold: a worker whose await of _waitWhilePaused() has returned takes its
\* next task without looking at the flag again.
C32_NothingStartsWhilePaused == [][bPaused => ~StartsTask]_vars

\* what does hold: a worker starts a task only if the flag was clear when
\* the worker last looked at it, and a worker that finds the flag set
\* starts nothing until resume() is called
StartsOnlyAfterPassedCheck ==
  [][StartsTask => \E w \in DOMAIN bW : bW[w].pc = "take" /\ bW'[w].pc # "take"]_vars

\* what does hold: tasks already running are left to finish while paused
\* (their promise settles and is recorded with the flag set)
RunningTasksFinishWhilePaused ==
  bpc = "running" /\ bPaused =>
    \A w \in DOMAIN bW : bW[w].pc = "executing" => ENABLED TaskSettles(w)

\* the scheduling of the page: a queued microtask runs, every execute()
\* settles, and pause() is not called for ever again and again
FairBatch ==
  /\ SpecBatch
  /\ WF_vars(ProcessStart) /\ WF_vars(ProcessResolves)
  /\ \A w \in 1..MaxOption :
       /\ WF_vars(w \in DOMAIN bW /\ WorkerTakes(w))
       /\ WF_vars(w \in DOMAIN bW /\ TaskSettles(w))
       /\ WF_vars(w \in DOMAIN bW /\ WorkerLoops(w))

\* C32 (liveness half): if from some point on the processor is not paused,
\* every task of a running batch is executed and process() resolves
ResumedBatchResolves ==
  (<>[](~bPaused)) =>
    [](bpc = "running" => <>(bpc = "resolved" /\ bCount.completed = Len(bTasks)))

\* a step that starts a batch: the counters and the workers are set up anew
BatchStarts ==
  /\ bpc' = "running"
  /\ \/ bpc # "running" \/ bTasks' # bTasks \/ bNext' < bNext
     \/ bCount'.completed < bCount.completed

\* a step in which a call of process() throws
CallThrows == bThrown' # bThrown

\* a call made while a batch runs throws, and throws without running any
\* task: nothing of the running batch changes and no batch starts
BusyCallThrows ==
  /\ [][bRunning => ~BatchStarts]_vars
  /\ [][CallThrows => bRunning /\ UNCHANGED <<bOpt, bTasks, bRunning, bPaused, bpc, bNext,
                                              bCount, bResults, bErrors, bW>>]_vars

\* C33 as stated: at most one batch at a time, a call made while a batch
\* runs throws without running any task, and after any call of process()
\* finishes, by resolving or by throwing, the running flag is false.  The
\* last part does not hold for the call that throws: the batch that made
\* it throw is still running and the flag stays set.
C33_FlagClearAfterAnyCall ==
  /\ BusyCallThrows
  /\ [][(CallThrows \/ (bpc = "running" /\ bpc' = "resolved")) => ~bRunning']_vars

\* C33, amended: at most one batch at a time, a call made while a batch runs
\* throws without running any task and leaves the running flag set, the
\* flag is set exactly while a batch runs, and after a call that started a
\* batch finishes the flag is false and a later process() is accepted.
C33_OneBatchAtATime ==
  /\ BusyCallThrows
  /\ [](bRunning <=> bpc = "running")
  /\ [][CallThrows => bRunning']_vars
  /\ [][(bpc = "running" /\ bpc' = "resolved") => ~bRunning']_vars
  /\ [](bpc = "resolved" => ENABLED ProcessStart)

\* a call was rejected while a batch of two tasks ran; the batch has since
\* resolved and left the flag clear
C33_Witness ==
  /\ bThrown = 1 /\ bpc = "resolved" /\ ~bRunning
  /\ Len(bTasks) = 2 /\ bCount.completed = 2

\* the rejected call itself: one task in flight, the flag still set
C33_WitnessRejected ==
  /\ bThrown = 1 /\ bpc = "running" /\ bRunning /\ InFlight # {}

-----------------------------------------------------------------------------
(* SpecRetry: callWithRetry(type, apiCall, manualKey, onRetry) of the      *)
(* page's key manager (src/unnamed/part_003)                               *)

ManualKeys == {"", "key-m"}

StoredKeys == [primary : {"", "key-p"}, backup : {"", "key-b", "key-p", "key-m"}]

\* the messages apiCall fails with
Messages ==
  {"No available channels for model", "group (fenzu) disabled", "model (bukeyong)",
   "insufficient quota", "rate limit reached", "Rate limit reached", "limit exceeded",
   "invalid_api_key", "HTTP 401", "HTTP 403", "HTTP 500", "network error", ""}

\* String.prototype.includes over the messages above: the keywords each
\* of them contains (the comparison is case-sensitive).  The two Chinese
\* keywords of lines 141-142 and 169-170 are written in pinyin.
KeywordsIn(msg) ==
  CASE msg = "No available channels for model" -> {"No available channels"}
    [] msg = "group (fenzu) disabled" -> {"(fenzu)"}
    [] msg = "model (bukeyong)" -> {"(bukeyong)"}
    [] msg = "insufficient quota" -> {"quota"}
    [] msg = "rate limit reached" -> {"rate limit"}
    [] msg = "limit exceeded" -> {"exceeded"}
    [] msg = "invalid_api_key" -> {"invalid_api_key"}
    [] msg = "HTTP 401" -> {"401"}
    [] msg = "HTTP 403" -> {"403"}
    [] OTHER -> {}

includes(msg, keyword) == keyword \in KeywordsIn(msg)

\* an error thrown by apiCall: its message (a string, or none) and the
\* attempt that threw it
Errors(attempt) ==
  [message : { Str(m) : m \in Messages } \cup {Undef}, attempt : {attempt}]

\* line 130
MissingKeyError == [message |-> Str("no credential"), attempt |-> 0]

\* faulty variant: every failure is retried
needRetryAlways(error) == TRUE

\* lines 137-148: errorMsg = error.message || '' and the nine tests
needRetry(error) ==
  LET errorMsg == JsString(Or(error.message, Str("")))
  IN  \/ includes(errorMsg, "No available channels")
      \/ includes(errorMsg, "(fenzu)")
      \/ includes(errorMsg, "(bukeyong)")
      \/ includes(errorMsg, "quota")
      \/ includes(errorMsg, "rate limit")
      \/ includes(errorMsg, "exceeded")
      \/ includes(errorMsg, "invalid_api_key")
      \/ includes(errorMsg, "401")
      \/ includes(errorMsg, "403")

\* lines 165-179
retryKeywords ==
  {"No available channels", "(fenzu)", "(bukeyong)", "quota", "rate limit", "exceeded",
   "invalid_api_key", "401", "403"}

shouldRetryWithBackup(errorMsg) ==
  IF ~Truthy(errorMsg) THEN FALSE
  ELSE \E keyword \in retryKeywords : includes(JsString(errorMsg), keyword)

\* line 126: manualKey || keys.primary
primaryKey == IF kManual # "" THEN kManual ELSE kStored.primary

\* line 127
backupKey == kStored.backup

ReturnsValue(key) == [threw |-> FALSE, value |-> key, error |-> NoError]

ThrowsError(error) == [threw |-> TRUE, value |-> "", error |-> error]

InitRetry ==
  /\ kManual \in ManualKeys /\ kStored \in StoredKeys /\ kOnRetry \in BOOLEAN
  /\ kpc = "idle" /\ kCalls = <<>> /\ kFired = 0
  /\ kErr = NoError /\ kOut = NoOutcome
  /\ ExceptRetryIdle

\* lines 123-135: up to await apiCall(primaryKey)
RetryEnter ==
  /\ kpc = "idle"
  /\ IF primaryKey = ""
       THEN /\ kpc' = "thrown" /\ kOut' = ThrowsError(MissingKeyError)
            /\ UNCHANGED kCalls
       ELSE /\ kpc' = "first" /\ kCalls' = Append(kCalls, primaryKey)
            /\ UNCHANGED kOut
  /\ UNCHANGED <<kManual, kStored, kOnRetry, kFired, kErr>>
  /\ UNCHANGED exceptRetry

\* line 135: the first attempt is fulfilled
FirstReturns ==
  /\ kpc = "first"
  /\ kpc' = "returned" /\ kOut' = ReturnsValue(kCalls[1])
  /\ UNCHANGED <<kManual, kStored, kOnRetry, kCalls, kFired, kErr>>
  /\ UNCHANGED exceptRetry

\* lines 136-157: the first attempt is rejected
FirstThrows ==
  /\ kpc = "first"
  /\ \E error \in Errors(1) :
       /\ kErr' = error
       /\ IF backupKey # "" /\ backupKey # primaryKey /\ needRetry(error)
            THEN /\ kFired' = IF kOnRetry THEN kFired + 1 ELSE kFired
                 /\ kCalls' = Append(kCalls, backupKey)
                 /\ kpc' = "backup"
                 /\ UNCHANGED kOut
            ELSE /\ kpc' = "thrown" /\ kOut' = ThrowsError(error)
                 /\ UNCHANGED <<kCalls, kFired>>
  /\ UNCHANGED <<kManual, kStored, kOnRetry>>
  /\ UNCHANGED exceptRetry

\* line 154: the attempt with the backup key settles, and its outcome is
\* the outcome of callWithRetry
BackupSettles ==
  /\ kpc = "backup"
  /\ \/ kpc' = "returned" /\ kOut' = ReturnsValue(kCalls[2])
     \/ \E error \in Errors(2) : kpc' = "thrown" /\ kOut' = ThrowsError(error)
  /\ UNCHANGED <<kManual, kStored, kOnRetry, kCalls, kFired, kErr>>
  /\ UNCHANGED exceptRetry

NextRetry == RetryEnter \/ FirstReturns \/ FirstThrows \/ BackupSettles

SpecRetry == InitRetry /\ [][NextRetry]_vars

\* the first attempt failed with a message that shouldRetryWithBackup
\* counts as key- or quota-related
FirstFailedKeyRelated == kErr # NoError /\ shouldRetryWithBackup(kErr.message)

\* a backup key exists and differs from the key of the first attempt
BackupUsable == kStored.backup # "" /\ kStored.backup # kCalls[1]

\* C34: apiCall is invoked with the primary key first (the manual key, or
\* else the stored primary); it is invoked once more, with the backup key,
\* exactly if the first attempt failed with a key- or quota-related message
\* and a backup key exists that differs from the primary; it is never
\* invoked more than twice; onRetry is called exactly when the backup
\* attempt is made; in every other failure the error of the first attempt
\* is thrown unchanged; without a primary key callWithRetry throws and
\* apiCall is not invoked.
C34_RetryOnceWithBackup ==
  /\ Len(kCalls) <= 2
  /\ kCalls # <<>> => kCalls[1] = (IF kManual # "" THEN kManual ELSE kStored.primary)
  /\ kpc \in {"backup", "returned", "thrown"} /\ kCalls # <<>> =>
       (Len(kCalls) = 2 <=> (FirstFailedKeyRelated /\ BackupUsable))
  /\ Len(kCalls) = 2 => kCalls[2] = kStored.backup
  /\ kFired = (IF kOnRetry /\ Len(kCalls) = 2 THEN 1 ELSE 0)
  /\ kpc = "thrown" /\ Len(kCalls) = 1 => kOut = ThrowsError(kErr) /\ kErr.attempt = 1
  /\ kpc = "returned" => ~kOut.threw /\ kOut.value = kCalls[Len(kCalls)]
  /\ (kManual = "" /\ kStored.primary = "") /\ kpc # "idle" =>
       kpc = "thrown" /\ kCalls = <<>> /\ kOut.threw

\* the stored primary failed on its quota, onRetry was called and the
\* backup key succeeded
C34_Witness ==
  /\ kpc = "returned" /\ kManual = "" /\ kOnRetry
  /\ kCalls = <<"key-p", "key-b">> /\ kFired = 1
  /\ kErr.message = Str("insufficient quota") /\ kOut = ReturnsValue("key-b")

\* a failure that is not retried although a backup key exists: the first
\* error is thrown
C34_WitnessRethrown ==
  /\ kpc = "thrown" /\ kCalls = <<"key-p">> /\ kStored.backup = "key-b"
  /\ kErr.message = Str("HTTP 500") /\ kOut = ThrowsError(kErr)

\* the backup equals the primary: no second attempt on a quota failure
C34_WitnessSameKey ==
  /\ kpc = "thrown" /\ kCalls = <<"key-p">> /\ kStored.backup = "key-p"
  /\ kErr.message = Str("insufficient quota")

\* no primary key: thrown at once
C34_WitnessNoKey == kpc = "thrown" /\ kCalls = <<>> /\ kStored.backup = "key-b"

-----------------------------------------------------------------------------
(* SpecLru: get / set / delete / clear on one LRUCache                     *)
(* (src/unnamed/part_002)                                                  *)

\* the largest maxSize tried; the module constructs its caches with
\* positive sizes
MaxCacheSize == 3

CacheKeys == {"a", "b", "c", "d"}

CacheValues == {"v1", "v2"}

\* what get() returns for a key that is not held
Missing == "undefined"

HeldKeys(cache) == { cache[i].key : i \in 1..Len(cache) }

IndexOf(cache, key) == CHOOSE i \in 1..Len(cache) : cache[i].key = key

\* Map.delete(key): the other entries keep their order
MapDelete(cache, key) == SelectSeq(cache, LAMBDA e : e.key # key)

\* Map.set(key, value): an entry held keeps its place, a new one goes last
MapSet(cache, key, value) ==
  IF key \in HeldKeys(cache)
    THEN [cache EXCEPT ![IndexOf(cache, key)] = [key |-> key, value |-> value]]
    ELSE Append(cache, [key |-> key, value |-> value])

\* faulty variant: get() leaves the entry where it is
LruGetInPlace(cache, key) == cache

\* lines 14-21: the Map after get(key)
LruGet(cache, key) ==
  IF key \notin HeldKeys(cache) THEN cache
  ELSE LET value == cache[IndexOf(cache, key)].value
       IN  MapSet(MapDelete(cache, key), key, value)

\* lines 23-32: the Map after set(key, value)
LruSet(cache, maxSize, key, value) ==
  LET kept == IF key \in HeldKeys(cache) THEN MapDelete(cache, key)
              ELSE IF Len(cache) >= maxSize /\ cache # <<>>
                THEN MapDelete(cache, cache[1].key)
              ELSE cache
  IN  MapSet(kept, key, value)

\* the recency order kept beside the cache: key becomes the most recently
\* used of the keys held
Used(recent, key, held) ==
  Append(SelectSeq(recent, LAMBDA k : k # key /\ k \in held), key)

InitLru ==
  /\ uMax \in 1..MaxCacheSize
  /\ uCache = <<>> /\ uRecent = <<>>
  /\ uOp = [op |-> "none", key |-> "", ret |-> ""]
  /\ ExceptLruIdle

\* lines 14-21
Get(key) ==
  /\ uCache' = LruGet(uCache, key)
  /\ uOp' = [op |-> "get", key |-> key,
              ret |-> IF key \in HeldKeys(uCache) THEN uCache[IndexOf(uCache, key)].value
                      ELSE Missing]
  /\ uRecent' = IF key \in HeldKeys(uCache) THEN Used(uRecent, key, HeldKeys(uCache)) ELSE uRecent
  /\ UNCHANGED uMax
  /\ UNCHANGED exceptLru

\* lines 23-32
Set(key, value) ==
  /\ uCache' = LruSet(uCache, uMax, key, value)
  /\ uOp' = [op |-> "set", key |-> key, ret |-> ""]
  /\ uRecent' = Used(uRecent, key, HeldKeys(uCache'))
  /\ UNCHANGED uMax
  /\ UNCHANGED exceptLru

\* lines 34-36
Delete(key) ==
  /\ uCache' = MapDelete(uCache, key)
  /\ uOp' = [op |-> "delete", key |-> key, ret |-> ""]
  /\ uRecent' = SelectSeq(uRecent, LAMBDA k : k # key)
  /\ UNCHANGED uMax
  /\ UNCHANGED exceptLru

\* lines 42-44
Clear ==
  /\ uCache' = <<>>
  /\ uOp' = [op |-> "clear", key |-> "", ret |-> ""]
  /\ uRecent' = <<>>
  /\ UNCHANGED uMax
  /\ UNCHANGED exceptLru

NextLru ==
  \/ \E key \in CacheKeys : Get(key) \/ Delete(key) \/ \E value \in CacheValues : Set(key, value)
  \/ Clear

SpecLru == InitLru /\ [][NextLru]_vars

\* a step that is set(key, ...) of the key named by the next state
SetStep == uOp'.op = "set"

\* C35: the size never exceeds maxSize; set of a new key at capacity
\* evicts exactly the least recently used key, a successful get and a set
\* of a key held both counting as a use; set of a key held evicts nothing;
\* and every key set is held afterwards.
C35_LruBounded ==
  /\ [](Len(uCache) <= uMax)
  /\ [](Cardinality(HeldKeys(uCache)) = Len(uCache))
  /\ [][SetStep /\ uOp'.key \notin HeldKeys(uCache) /\ Len(uCache) >= uMax =>
          HeldKeys(uCache') = (HeldKeys(uCache) \ {uRecent[1]}) \cup {uOp'.key}]_vars
  /\ [][SetStep /\ uOp'.key \notin HeldKeys(uCache) /\ Len(uCache) < uMax =>
          HeldKeys(uCache') = HeldKeys(uCache) \cup {uOp'.key}]_vars
  /\ [][SetStep /\ uOp'.key \in HeldKeys(uCache) => HeldKeys(uCache') = HeldKeys(uCache)]_vars

\* a full cache of three keys in which the key inserted first was read
\* last: a set of a fourth key has evicted another key, not that one
C35_Witness ==
  /\ uMax = 3 /\ Len(uCache) = 3 /\ uOp = [op |-> "set", key |-> "d", ret |-> ""]
  /\ HeldKeys(uCache) = {"a", "c", "d"} /\ uRecent = <<"c", "a", "d">>

-----------------------------------------------------------------------------
(* SpecCache, SpecCacheConc: setCache / getCache / removeCache of DuuDB on *)
(* one key (src/unnamed/part_002)                                          *)

\* line 137: EXPIRY.CACHE, 7 days in ms
EXPIRY_CACHE == 604800000

\* advances of the clock in one run
MaxTicks == 2

\* calls in flight at once in SpecCacheConc
MaxInFlight == 2

StoredValues == {"v1", "v2"}

\* the ttl arguments tried: none, null, and numbers
TtlArgs == {Undef, Null, Num(0), Num(2), Num(0 - 1)}

\* lines 487-492: the entry setCache builds
CacheEntry(value, ttl) ==
  [value |-> value, timestamp |-> dNow,
   ttl |-> IF ttl = Undef THEN Num(EXPIRY_CACHE) ELSE ttl]

\* faulty variant: every entry is good for ever
FreshAlways(entry) == TRUE

\* lines 511 and 525: !entry.ttl || (Date.now() - entry.timestamp <= entry.ttl)
Fresh(entry) == ~Truthy(entry.ttl) \/ dNow - entry.timestamp <= entry.ttl.n

Returned(value, clean) == [ret |-> "value", value |-> value, clean |-> clean]

ReturnedDefault(clean) == [ret |-> "default", value |-> "", clean |-> clean]

\* an IndexedDB transaction of one request
Tx(op, entry, clean) == [op |-> op, entry |-> entry, clean |-> clean]

InitCacheWith(limit) ==
  /\ dLimit = limit /\ dNow = 0 /\ dTicks = 0
  /\ dMem = NoEntry /\ dStore = NoEntry /\ dQueue = <<>>
  /\ dSet = NoEntry /\ dClean = FALSE /\ dGot = NoGet
  /\ ExceptDbIdle

InitCache == InitCacheWith(1)

InitCacheConc == InitCacheWith(MaxInFlight)

\* the clock advances by a millisecond or by the default expiry
Tick ==
  /\ dTicks < MaxTicks
  /\ dTicks' = dTicks + 1
  /\ \E d \in {1, EXPIRY_CACHE} : dNow' = dNow + d
  /\ UNCHANGED <<dLimit, dMem, dStore, dQueue, dSet, dClean, dGot>>
  /\ UNCHANGED exceptDb

\* lines 485-499: setCache(key, value, ttl) up to the creation of its
\* transaction
SetCacheCall ==
  /\ Len(dQueue) < dLimit
  /\ \E value \in StoredValues, ttl \in TtlArgs :
       LET entry == CacheEntry(value, ttl)
       IN  /\ dMem' = entry
           /\ dQueue' = Append([i \in 1..Len(dQueue) |-> [dQueue[i] EXCEPT !.clean = FALSE]],
                                Tx("put", entry, FALSE))
           /\ dSet' = [value |-> value, timestamp |-> dNow, ttl |-> ttl]
  /\ dClean' = FALSE
  /\ UNCHANGED <<dLimit, dNow, dTicks, dStore, dGot>>
  /\ UNCHANGED exceptDb

\* lines 507-520: getCache(key) answers from the memory cache, or drops
\* the stale memory entry and creates its read transaction
GetCacheCall ==
  /\ Len(dQueue) < dLimit
  /\ IF dMem # NoEntry /\ Fresh(dMem)
       THEN /\ dGot' = Returned(dMem.value, dClean)
            /\ UNCHANGED <<dMem, dQueue>>
       ELSE /\ dMem' = NoEntry
            /\ dQueue' = Append(dQueue, Tx("get", NoEntry, dClean))
            /\ UNCHANGED dGot
  /\ UNCHANGED <<dLimit, dNow, dTicks, dStore, dSet, dClean>>
  /\ UNCHANGED exceptDb

\* lines 539-546: removeCache(key) up to the creation of its transaction
RemoveCacheCall ==
  /\ Len(dQueue) < dLimit
  /\ dMem' = NoEntry
  /\ dQueue' = Append(dQueue, Tx("delete", NoEntry, TRUE))
  /\ dSet' = NoEntry
  /\ UNCHANGED <<dLimit, dNow, dTicks, dStore, dClean, dGot>>
  /\ UNCHANGED exceptDb

\* lines 499-503: the put request of setCache succeeds
PutRuns ==
  /\ dQueue # <<>> /\ Head(dQueue).op = "put"
  /\ dStore' = Head(dQueue).entry
  /\ dQueue' = Tail(dQueue)
  /\ UNCHANGED <<dLimit, dNow, dTicks, dMem, dSet, dClean, dGot>>
  /\ UNCHANGED exceptDb

\* lines 520-535: the get request of getCache succeeds
GetRuns ==
  /\ dQueue # <<>> /\ Head(dQueue).op = "get"
  /\ IF dStore # NoEntry /\ Fresh(dStore)
       THEN /\ dMem' = dStore
            /\ dGot' = Returned(dStore.value, Head(dQueue).clean /\ dClean)
       ELSE /\ dGot' = ReturnedDefault(Head(dQueue).clean /\ dClean)
            /\ UNCHANGED dMem
  /\ dQueue' = Tail(dQueue)
  /\ UNCHANGED <<dLimit, dNow, dTicks, dStore, dSet, dClean>>
  /\ UNCHANGED exceptDb

\* lines 543-548: the delete request of removeCache succeeds
DeleteRuns ==
  /\ dQueue # <<>> /\ Head(dQueue).op = "delete"
  /\ dStore' = NoEntry
  /\ dClean' = Head(dQueue).clean
  /\ dQueue' = Tail(dQueue)
  /\ UNCHANGED <<dLimit, dNow, dTicks, dMem, dSet, dGot>>
  /\ UNCHANGED exceptDb

\* lines 23-32, 635: the memory cache loses the entry, evicted by the
\* entries of other keys or cleared by cleanup()
MemoryEvicts ==
  /\ dMem # NoEntry
  /\ dMem' = NoEntry
  /\ UNCHANGED <<dLimit, dNow, dTicks, dStore, dQueue, dSet, dClean, dGot>>
  /\ UNCHANGED exceptDb

NextCache ==
  \/ Tick \/ SetCacheCall \/ GetCacheCall \/ RemoveCacheCall
  \/ PutRuns \/ GetRuns \/ DeleteRuns \/ MemoryEvicts

SpecCache == InitCache /\ [][NextCache]_vars

SpecCacheConc == InitCacheConc /\ [][NextCache]_vars

\* a step in which a getCache call completes
GetCompletes == dGot' # dGot

\* the latest setCache call has expired: it was made with no ttl and more
\* than the default expiry ago, or with a number and more than that many
\* milliseconds ago; with null it never expires
Expired(set, time) ==
  CASE set.ttl = Undef -> time - set.timestamp > EXPIRY_CACHE
    [] set.ttl = Null -> FALSE
    [] OTHER -> time - set.timestamp > set.ttl.n

\* the latest setCache call has not reached its expiry
Live(set, time) ==
  CASE set.ttl = Undef -> time - set.timestamp < EXPIRY_CACHE
    [] set.ttl = Null -> TRUE
    [] OTHER -> time - set.timestamp < set.ttl.n

TtlSemantics(set, got, time) ==
  /\ set = NoEntry => got.ret = "default"
  /\ set # NoEntry /\ Expired(set, time) => got.ret = "default"
  /\ set # NoEntry /\ Live(set, time) => got.ret = "value" /\ got.value = set.value

\* C36: an entry stored with ttl undefined expires after the default
\* expiry, with ttl null never, with a numeric ttl that many milliseconds
\* after it was stored, for every number, 0 included; getCache returns the
\* default value for an expired entry, from the memory cache or from the
\* store.  It does not hold for ttl 0, which the freshness test takes for
\* "no ttl": the entry never expires.
C36_TtlSemantics == [][GetCompletes => TtlSemantics(dSet, dGot', dNow)]_vars

\* what does hold: the same for every ttl but 0, and an entry stored with
\* ttl 0 is returned whenever it is asked for
TtlSemanticsButZero ==
  [][GetCompletes =>
       IF dSet # NoEntry /\ dSet.ttl = Num(0)
         THEN dGot'.ret = "value" /\ dGot'.value = dSet.value
         ELSE TtlSemantics(dSet, dGot', dNow)]_vars

\* C37: once removeCache(key) has completed and setCache(key) was not
\* called since that removeCache was called, every getCache(key) that
\* starts afterwards returns the default value, whatever calls were in
\* flight before.  It does not hold: a getCache that was in flight when
\* removeCache was called puts the entry it read back into the memory
\* cache, where later calls find it.
C37_NoResurrection == [][GetCompletes /\ dGot'.clean => dGot'.ret = "default"]_vars

\* what does hold: without calls in flight at once, a removed entry stays
\* removed (checked under SpecCache)
NoResurrectionOneAtATime ==
  [][GetCompletes /\ dGot'.clean /\ dLimit = 1 => dGot'.ret = "default"]_vars

\* what does hold: after a removeCache has completed the store itself has
\* no entry until setCache is called
StoreStaysEmpty == dClean /\ (\A i \in 1..Len(dQueue) : dQueue[i].op # "put") => dStore = NoEntry

-----------------------------------------------------------------------------
(* SpecQueue, FairQueue: one WriteQueue with add(), its timer, its         *)
(* batches and one call of flush() (src/unnamed/part_002)                  *)

\* operations added in one run
MaxAdds == 4

\* the largest maxBatchSize tried
MaxBatchSize == 2

\* the queue, the flag and the batches as one value
QueueState(queue, flushing, batches) ==
  [queue |-> queue, flushing |-> flushing, batches |-> batches]

\* faulty variant: _flush() does not look at this.flushing
FlushUnguarded(queue, flushing, batches, maxBatchSize) ==
  IF queue = <<>> THEN QueueState(queue, flushing, batches)
  ELSE LET n == Min(maxBatchSize, Len(queue))
       IN  QueueState(SubSeq(queue, n + 1, Len(queue)), TRUE,
                      Append(batches, SubSeq(queue, 1, n)))

\* lines 82-89: _flush() up to await DuuDB._executeBatch(batch)
Flush(queue, flushing, batches, maxBatchSize) ==
  IF flushing \/ queue = <<>> THEN QueueState(queue, flushing, batches)
  ELSE LET n == Min(maxBatchSize, Len(queue))
       IN  QueueState(SubSeq(queue, n + 1, Len(queue)), TRUE,
                      Append(batches, SubSeq(queue, 1, n)))

\* a microtask is pending: the browser runs it before any task (a timer,
\* an IndexedDB event, a call from an event handler)
MicrotaskPending == qpc = "loop"

InitQueue ==
  /\ qMax \in 1..MaxBatchSize
  /\ qQueue = <<>> /\ qTimer = FALSE /\ qFlushing = FALSE
  /\ qBatches = <<>> /\ qSettled = {} /\ qAdded = 0 /\ qpc = "idle"
  /\ ExceptQueueIdle

\* lines 61-72, 74-80: add(operation)
Add ==
  /\ ~MicrotaskPending /\ qAdded < MaxAdds
  /\ qAdded' = qAdded + 1
  /\ LET queue == Append(qQueue, qAdded + 1)
     IN  IF Len(queue) >= qMax
           THEN LET after == Flush(queue, qFlushing, qBatches, qMax)
                IN  /\ qQueue' = after.queue /\ qFlushing' = after.flushing
                    /\ qBatches' = after.batches
                    /\ UNCHANGED qTimer
           ELSE /\ qQueue' = queue /\ qTimer' = TRUE
                /\ UNCHANGED <<qFlushing, qBatches>>
  /\ UNCHANGED <<qMax, qSettled, qpc>>
  /\ UNCHANGED exceptQueue

\* lines 76-79: the timer of _scheduleFlush fires
FlushTimerFires ==
  /\ ~MicrotaskPending /\ qTimer
  /\ qTimer' = FALSE
  /\ LET after == Flush(qQueue, qFlushing, qBatches, qMax)
     IN  /\ qQueue' = after.queue /\ qFlushing' = after.flushing
         /\ qBatches' = after.batches
  /\ UNCHANGED <<qMax, qSettled, qAdded, qpc>>
  /\ UNCHANGED exceptQueue

\* lines 88-107, 211-246: the batch write completes, with success or with
\* an error followed by the retry of each item; every item of the batch
\* is settled, and _flush() returns to the flush() that awaits it
BatchCompletes ==
  /\ ~MicrotaskPending /\ qBatches # <<>>
  /\ qSettled' = qSettled \cup { Head(qBatches)[i] : i \in 1..Len(Head(qBatches)) }
  /\ qBatches' = Tail(qBatches)
  /\ qFlushing' = FALSE
  /\ qTimer' = (qTimer \/ qQueue # <<>>)
  /\ qpc' = IF qpc = "waiting" THEN "loop" ELSE qpc
  /\ UNCHANGED <<qMax, qQueue, qAdded>>
  /\ UNCHANGED exceptQueue

\* lines 114-117: one test of the loop of flush() and, when the queue is not
\* empty, its call of _flush(): a _flush() that returns at once leaves
\* flush() with a microtask pending, one that starts a batch leaves it
\* waiting for the batch
LoopOnce ==
  IF qQueue = <<>>
    THEN /\ qpc' = "returned"
         /\ UNCHANGED <<qQueue, qFlushing, qBatches>>
    ELSE LET after == Flush(qQueue, qFlushing, qBatches, qMax)
         IN  /\ qQueue' = after.queue /\ qFlushing' = after.flushing
             /\ qBatches' = after.batches
             /\ qpc' = IF qFlushing THEN "loop" ELSE "waiting"

\* lines 110-117: flush() is called
FlushCall ==
  /\ qpc = "idle"
  /\ qTimer' = FALSE
  /\ LoopOnce
  /\ UNCHANGED <<qMax, qSettled, qAdded>>
  /\ UNCHANGED exceptQueue

\* lines 114-116: the await of flush() returns and the loop goes on
FlushLoop ==
  /\ qpc = "loop"
  /\ LoopOnce
  /\ UNCHANGED <<qMax, qTimer, qSettled, qAdded>>
  /\ UNCHANGED exceptQueue

NextQueue == Add \/ FlushTimerFires \/ BatchCompletes \/ FlushCall \/ FlushLoop

SpecQueue == InitQueue /\ [][NextQueue]_vars

\* the scheduling of the browser: a pending microtask runs, a set timer
\* fires, and every batch write completes
FairQueue ==
  /\ SpecQueue
  /\ WF_vars(FlushLoop) /\ WF_vars(FlushTimerFires) /\ WF_vars(BatchCompletes)

\* C38 (first part): flush() eventually returns with the queue empty, also
\* when it is called while a _flush() started by the timer or by add() is
\* in progress.  It does not hold: called while a batch is in flight and
\* the queue is not empty, flush() awaits a _flush() that returns at once,
\* again and again in microtasks, and the batch write that would end the
\* loop is a task that never gets to run.
C38_FlushReturns == (qpc \in {"loop", "waiting"}) ~> (qpc = "returned" /\ qQueue = <<>>)

\* what does hold: at most one batch is in flight, it holds at most
\* maxBatchSize operations, and the operations settled, in flight and
\* waiting are the operations added, in the order they were added
OneBatchFifo ==
  /\ Len(qBatches) <= 1
  /\ qFlushing <=> qBatches # <<>>
  /\ \A b \in 1..Len(qBatches) : Len(qBatches[b]) \in 1..qMax
  /\ LET inFlight == IF qBatches = <<>> THEN <<>> ELSE qBatches[1]
         rest == inFlight \o qQueue
     IN  /\ qSettled = 1..(qAdded - Len(rest))
         /\ \A i \in 1..Len(rest) : rest[i] = qAdded - Len(rest) + i

\* what does hold: a flush() that starts its own batch, or finds the
\* queue empty, returns with the queue empty
FlushReturnsWhenNotSpinning ==
  (qpc = "waiting") ~> (qpc = "returned" /\ qQueue = <<>>)

\* what does hold: while flush() is not spinning, every operation added is
\* eventually settled
AddedOperationsSettle ==
  \A id \in 1..MaxAdds :
    (qAdded >= id) ~> (id \in qSettled \/ (qpc = "loop" /\ qFlushing))

\* the response is a piped upstream body that was cut before its end
StreamCut == cRes.sent = "stream" /\ cRes.aborted

\* C39: once the chat surface pipes an upstream body, the stream is ended
\* only by the upstream finishing or by the caller disconnecting, never by
\* the FETCH_TIMEOUT_MS timer of the request.  It does not hold: the pipe
\* path returns without cancel(), the timer stays set and its abort cuts
\* the body that is being piped.
C39_TimeoutStopsAtPipe == StreamCut => clientGone

\* what does hold: a cut stream was cut by the caller's disconnect or by
\* the timer, and a response without body has its timer cancelled
StreamCutByCloseOrTimer ==
  /\ StreamCut => clientGone \/ ~cTimer
  /\ cRes.sent = "stream" /\ cpc = "done" /\ ~StreamCut => cRes.ended

\* ---------------------------------------------------------------------------
\* A create request that fails before its job is accepted
\* ---------------------------------------------------------------------------

\* the surfaces that submit a job
CreateSurfaces == {"videoCreate", "klingText", "klingImage", "generate"}

\* the last upstream call the handler issued
LastOp == IF rCalls = <<>> THEN "none" ELSE rCalls[Len(rCalls)].op

\* the handler answered while ingesting its media
IngestionFailed == rpc = "done" /\ LastOp = "upload"

\* the handler answered on a submission whose fetch was rejected or that
\* the upstream answered with a non-success status
SubmissionRejected ==
  /\ rpc = "done" /\ LastOp \in {"createTask", "veoGenerate", "imageGenerate"}
  /\ (rGot.threw \/ ~rGot.ok)

\* the handler answered on a submission that the upstream answered with a
\* success status and no id under any of the four keys
NoJobId ==
  /\ rpc = "done" /\ LastOp \in {"createTask", "veoGenerate", "imageGenerate"}
  /\ ~rGot.threw /\ rGot.ok /\ ~Truthy(TaskIdOf(rGot))

\* the handler answered a model that is neither a Veo nor a Sora model
UnsupportedModel ==
  /\ rpc = "done" /\ rSurface = "videoCreate" /\ LastOp = "none"
  /\ ~isVeoModel(rIn.model) /\ ~isSoraModel(rIn.model)

\* the handler answered an image-to-video payload without an image
InvalidPayload == rpc = "done" /\ rSurface = "klingImage" /\ LastOp = "none" /\ ~rIn.image

\* an authenticated create request was answered before a job was accepted
FailedBeforeAccepted ==
  /\ rSurface \in CreateSurfaces /\ rKey # ""
  /\ (IngestionFailed \/ SubmissionRejected \/ NoJobId \/ UnsupportedModel \/ InvalidPayload)

\* the keys under which an answer of a create surface holds a task id
\* (lines 719, 742, 836, 887)
TaskIdKeys == {"id", "task_id", "data"}

\* C40: a create request that fails before its job is accepted upstream
\* (media ingestion fails, the upstream rejects the submission, the answer
\* carries no job id, the model is unsupported, or the payload is invalid)
\* leaves the usage ledger as it was when the request arrived, which is
\* empty, and is answered with an error status and a body that holds an
\* error text and no task id.
C40_FailedCreateLeavesLedger ==
  FailedBeforeAccepted =>
    /\ usageLogs = NoLogs
    /\ rRes.sent = "json" /\ rRes.status \in {400, 500}
    /\ DOMAIN rRes.body \cap TaskIdKeys = {}
    /\ DOMAIN rRes.body \in {{"error"}, {"message"}}
    /\ rJob = NoJob

\* the upstream rejected the submission of an uploaded image
C40_Witness ==
  /\ FailedBeforeAccepted /\ SubmissionRejected /\ rSurface = "klingImage"
  /\ rUrls # <<>> /\ ~rGot.threw /\ rRes.status = 500

\* the media ingestion of a Sora request failed
C40_WitnessIngestion ==
  FailedBeforeAccepted /\ IngestionFailed /\ rSurface = "videoCreate" /\ rRes.status = 500

\* a success answer of the upstream carried no job id
C40_WitnessNoJobId == FailedBeforeAccepted /\ NoJobId /\ rRes.status = 500

\* an unsupported model was answered 400
C40_WitnessUnsupported == FailedBeforeAccepted /\ UnsupportedModel /\ rRes.status = 400

\* a payload without an image was answered 400
C40_WitnessInvalid == FailedBeforeAccepted /\ InvalidPayload /\ rRes.status = 400

\* the image submission of the generateContent handler failed after its
\* inline images were ingested
C40_WitnessImage ==
  /\ FailedBeforeAccepted /\ SubmissionRejected /\ rSurface = "generate"
  /\ rUrls # <<>> /\ rRes.status = 500

\* by contrast, a request that fails after its job was accepted has its
\* usage entry
FailedAfterAcceptedIsLogged ==
  (rSurface = "generate" /\ rpc = "done" /\ LastOp \in {"wait", "binary"}) =>
    Len(usageLogs[sha256Short(rKey)]) = 1

=============================================================================
